---------------------------- MODULE Spec2Model ----------------------------
(* WakeSafe AI server: the three detector adapters and the weighted       *)
(* fusion of their verdicts (fatigue_detection.py), the single-photo       *)
(* workflow and the semaphore gated batch of photo_processor.py, the       *)
(* /analyze/batch handler of main.py and the counters and windows of       *)
(* metrics.py.                                                             *)
(*                                                                         *)
(* Numbers: a confidence is an integer number of tenths (7 is 0.7), a      *)
(* weight is an integer number of tenths (3 is 0.3), so an accumulated     *)
(* score is an integer number of hundredths (40 is 0.40).                  *)
EXTENDS Integers, Sequences, FiniteSets

VARIABLES
    haarcascade,     \* verdict of _haarcascade_analysis handed to the fusion
    dlib,            \* verdict of _dlib_analysis handed to the fusion
    mobilenet,       \* verdict of _mobilenet_analysis handed to the fusion
    fused,           \* (final_prediction, confidence) of _combine_predictions
    photos,          \* the list of photos of the batch call / request
    max_concurrent,  \* the max_concurrent argument of process_batch_photos
    caller,          \* "batch": process_batch_photos, "handler": /analyze/batch
    task,            \* per photo: the coroutine running process_single_photo
    sem_value,       \* asyncio.Semaphore._value
    sem_waiters,     \* asyncio.Semaphore._waiters, FIFO
    started,         \* number of tasks whose first step the event loop has run
    completed,       \* indices of the finished tasks, in completion order
    metrics,         \* MetricsCollector counters, distribution and windows
    batch,           \* position and result of the batch call / handler
    snapshot,        \* what the last get_all_metrics call returned
    analysis,        \* one analyze_fatigue call: its position and its image
    now,             \* the clock time.time() and datetime.utcnow() read, in minutes
    sink,            \* one background call of the WakeSafeClient result sink
    service,         \* FatigueDetectionService: model handles, models_loaded
    health,          \* one GET /health request: its position and its response
    interp,          \* the shared tf.lite.Interpreter and the calls using it
    auth             \* one request at verify_ai_token and at the protected handler

restVars == <<service, health, interp, auth>>

vars == <<haarcascade, dlib, mobilenet, fused, photos, max_concurrent, caller,
          task, sem_value, sem_waiters, started, completed, metrics, batch,
          snapshot, analysis, now, sink, restVars>>

fusionVars == <<haarcascade, dlib, mobilenet, fused>>
batchVars == <<photos, max_concurrent, caller, task, sem_value, sem_waiters,
               started, completed, metrics, batch, snapshot, analysis, now, sink, restVars>>

-----------------------------------------------------------------------------
(* Bounds *)

MaxConf == 10          \* confidences range over 0..MaxConf tenths
MaxPhotos == 3         \* a batch holds 0..MaxPhotos photos
MaxConcurrent == 2     \* max_concurrent ranges over 1..MaxConcurrent
MaxOverflow == 2       \* a window receives up to its capacity + MaxOverflow entries
MaxEvents == 3         \* metrics events of the small metrics specification
MaxClock == 1          \* the clock advances MaxClock times
MaxSink == 2           \* update_batch_results is handed 0..MaxSink results
MaxSinkPhotos == 2     \* the request handled beside a sink call holds 0..MaxSinkPhotos photos
MaxCalls == 3          \* 1..MaxCalls analyses share the interpreter at a time
MaxHeader == 3         \* an Authorization header holds 0..MaxHeader pieces
MaxEyes == 3           \* the eye cascade finds 0..MaxEyes eyes in a face

-----------------------------------------------------------------------------
(* Fusion: FatigueDetectionService._combine_predictions *)

Labels == {"alert", "drowsy", "sleeping"}
Predictions == Labels \cup {"unknown"}

HAARCASCADE_WEIGHT == 3
DLIB_WEIGHT == 5
MOBILENET_WEIGHT == 2

Verdict(p, c) == [prediction |-> p, confidence |-> c]
Verdicts == [prediction : Predictions, confidence : 0..MaxConf]

NoResult == [prediction |-> "none", confidence |-> 0]

\* The lists predictions / confidences / weights after the three
\* "!= 'unknown'" tests, as one list of entries in append order.
CollectCountingUnknown(h, d, m) ==
    LET entry(v, w) ==
            <<[pred |-> IF v.prediction = "unknown" THEN "alert" ELSE v.prediction,
               conf |-> v.confidence, weight |-> w]>>
    IN  entry(h, HAARCASCADE_WEIGHT) \o entry(d, DLIB_WEIGHT)
            \o entry(m, MOBILENET_WEIGHT)

Collect(h, d, m) ==
    LET entry(v, w) ==
            IF v.prediction # "unknown"
            THEN <<[pred |-> v.prediction, conf |-> v.confidence, weight |-> w]>>
            ELSE <<>>
    IN  entry(h, HAARCASCADE_WEIGHT) \o entry(d, DLIB_WEIGHT)
            \o entry(m, MOBILENET_WEIGHT)

\* prediction_scores as created: insertion order alert, drowsy, sleeping.
ScoreKeys == <<"alert", "drowsy", "sleeping">>
ZeroScores == [k \in Labels |-> 0]

RECURSIVE Accumulate(_, _)
Accumulate(scores, votes) ==
    IF votes = <<>> THEN scores
    ELSE LET v == Head(votes)
         IN  Accumulate([scores EXCEPT ![v.pred] = @ + v.conf * v.weight],
                        Tail(votes))

RECURSIVE AccumulateUnweighted(_, _)
AccumulateUnweighted(scores, votes) ==
    IF votes = <<>> THEN scores
    ELSE LET v == Head(votes)
         IN  AccumulateUnweighted([scores EXCEPT ![v.pred] = @ + v.conf * 10],
                                  Tail(votes))

\* for pred, conf, weight in zip(...): prediction_scores[pred] += conf * weight
WeightedVoting(scores, votes) == Accumulate(scores, votes)

RECURSIVE MaxFrom(_, _, _)
MaxFrom(keys, scores, best) ==
    IF keys = <<>> THEN best
    ELSE MaxFrom(Tail(keys), scores,
                 IF scores[Head(keys)] > scores[best] THEN Head(keys) ELSE best)

RECURSIVE LastMaxFrom(_, _, _)
LastMaxFrom(keys, scores, best) ==
    IF keys = <<>> THEN best
    ELSE LastMaxFrom(Tail(keys), scores,
                     IF scores[Head(keys)] >= scores[best] THEN Head(keys) ELSE best)

PyMaxLast(keys, scores) == LastMaxFrom(Tail(keys), scores, Head(keys))

\* Python's max(d, key=d.get): the first key, in iteration order, whose value
\* is maximal (a later key replaces the best only when strictly greater).
PyMax(keys, scores) == MaxFrom(Tail(keys), scores, Head(keys))

combine_predictions_normalised(h, d, m) ==
    LET votes == Collect(h, d, m)
    IN  IF votes = <<>>
        THEN [prediction |-> "unknown", confidence |-> 0]
        ELSE LET prediction_scores == WeightedVoting(ZeroScores, votes)
                 final_prediction == PyMax(ScoreKeys, prediction_scores)
                 total == prediction_scores["alert"] + prediction_scores["drowsy"]
                              + prediction_scores["sleeping"]
             IN  [prediction |-> final_prediction,
                  confidence |->
                      IF total = 0 THEN 0
                      ELSE (100 * prediction_scores[final_prediction]) \div total]

combine_predictions_stateful(h, d, m) ==
    LET votes == Collect(h, d, m)
    IN  IF votes = <<>>
        THEN [prediction |-> "unknown", confidence |-> metrics.total_analyses]
        ELSE LET prediction_scores == WeightedVoting(ZeroScores, votes)
                 final_prediction == PyMax(ScoreKeys, prediction_scores)
             IN  [prediction |-> final_prediction,
                  confidence |-> prediction_scores[final_prediction]
                                     + metrics.total_analyses]

combine_predictions(h, d, m) ==
    LET votes == Collect(h, d, m)
    IN  IF votes = <<>>
        THEN [prediction |-> "unknown", confidence |-> 0]
        ELSE LET prediction_scores == WeightedVoting(ZeroScores, votes)
                 final_prediction == PyMax(ScoreKeys, prediction_scores)
             IN  [prediction |-> final_prediction,
                  confidence |-> prediction_scores[final_prediction]]

-----------------------------------------------------------------------------
(* Idle values of the batch variables, used by the fusion specification *)

\* deque(maxlen=...) of MetricsCollector.__init__
PROCESSING_TIMES_MAXLEN == 1000
ERRORS_MAXLEN == 100
RECENT_ANALYSES_MAXLEN == 100

ZeroMetrics ==
    [total_analyses |-> 0, successful_analyses |-> 0, failed_analyses |-> 0,
     predictions_distribution |-> [p \in Predictions |-> 0],
     processing_times |-> <<>>, errors |-> <<>>, recent_analyses |-> <<>>]

NoSnapshot == [taken |-> FALSE]
AnalysisIdle == [pc |-> "idle"]
SinkIdle == [pc |-> "idle"]

\* model files that all load
FilesOk ==
    [face |-> "ok", eye |-> "ok", detector |-> "ok", predictor |-> "ok",
     interpreter |-> "ok", allocate |-> "ok"]

\* FatigueDetectionService after __init__: no handle, models_loaded False;
\* files is what loading each model file will do, failed whether a loader
\* has raised into the gather of initialize_models
ServiceNew ==
    [face_cascade |-> "None", eye_cascade |-> "None", dlib_detector |-> "None",
     shape_predictor |-> "None", mobilenet_model |-> "None",
     models_loaded |-> FALSE, pc |-> "constructed", files |-> FilesOk,
     failed |-> FALSE]

\* and after a startup in which initialize_models returned
ServiceReady ==
    [face_cascade |-> "model", eye_cascade |-> "model", dlib_detector |-> "model",
     shape_predictor |-> "model", mobilenet_model |-> "model",
     models_loaded |-> TRUE, pc |-> "serving", files |-> FilesOk,
     failed |-> FALSE]

HealthIdle == [pc |-> "idle"]
InterpIdle == [input |-> "none", output |-> "none", calls |-> <<>>]
AuthIdle == [pc |-> "idle"]

RestIdle ==
    /\ service = ServiceReady
    /\ health = HealthIdle
    /\ interp = InterpIdle
    /\ auth = AuthIdle

BatchIdle ==
    /\ photos = <<>>
    /\ max_concurrent = 1
    /\ caller = "none"
    /\ task = <<>>
    /\ sem_value = 0
    /\ sem_waiters = <<>>
    /\ started = 0
    /\ completed = <<>>
    /\ metrics = ZeroMetrics
    /\ batch = [pc |-> "idle"]
    /\ snapshot = NoSnapshot
    /\ analysis = AnalysisIdle
    /\ now = 0
    /\ sink = SinkIdle
    /\ RestIdle

-----------------------------------------------------------------------------
(* Specification of the fusion step on its own: any three verdicts *)

InitFusion ==
    /\ haarcascade \in Verdicts
    /\ dlib \in Verdicts
    /\ mobilenet \in Verdicts
    /\ fused = NoResult
    /\ BatchIdle

Fuse ==
    /\ fused = NoResult
    /\ fused' = combine_predictions(haarcascade, dlib, mobilenet)
    /\ UNCHANGED <<haarcascade, dlib, mobilenet>>
    /\ UNCHANGED batchVars

NextFusion == Fuse

SpecFusion == InitFusion /\ [][NextFusion]_vars

-----------------------------------------------------------------------------
(* Metrics: MetricsCollector.record_analysis / record_error *)

list_append(d, x, maxlen) == Append(d, x)

\* deque.append on a deque created with maxlen: a full deque drops its
\* oldest (leftmost) entry
deque_append(d, x, maxlen) ==
    IF Len(d) >= maxlen THEN Append(Tail(d), x) ELSE Append(d, x)

record_analysis_undistributed(m, prediction, confidence, processing_time) ==
    [m EXCEPT !.total_analyses = @ + 1,
              !.successful_analyses = @ + 1,
              !.processing_times =
                  deque_append(@, processing_time, PROCESSING_TIMES_MAXLEN),
              !.recent_analyses =
                  deque_append(@, [timestamp |-> now,
                                   prediction |-> prediction,
                                   confidence |-> confidence,
                                   processing_time |-> processing_time],
                               RECENT_ANALYSES_MAXLEN)]

record_analysis(m, prediction, confidence, processing_time) ==
    [m EXCEPT !.total_analyses = @ + 1,
              !.successful_analyses = @ + 1,
              !.predictions_distribution[prediction] = @ + 1,
              !.processing_times =
                  deque_append(@, processing_time, PROCESSING_TIMES_MAXLEN),
              !.recent_analyses =
                  deque_append(@, [timestamp |-> now,
                                   prediction |-> prediction,
                                   confidence |-> confidence,
                                   processing_time |-> processing_time],
                               RECENT_ANALYSES_MAXLEN)]

record_error_uncounted(m, error) ==
    [m EXCEPT !.failed_analyses = @ + 1,
              !.errors = deque_append(@, [timestamp |-> now, error |-> error],
                                      ERRORS_MAXLEN)]

record_error_counters_first(m, error) ==
    [m EXCEPT !.total_analyses = @ + 1,
              !.failed_analyses = @ + 1]

record_error(m, error) ==
    [m EXCEPT !.total_analyses = @ + 1,
              !.failed_analyses = @ + 1,
              !.errors = deque_append(@, [timestamp |-> now, error |-> error],
                                      ERRORS_MAXLEN)]

\* reset_metrics: the counters, the distribution and the windows
reset_counters_only(m) ==
    [m EXCEPT !.total_analyses = 0, !.successful_analyses = 0,
              !.failed_analyses = 0]

reset_metrics(m) == ZeroMetrics

\* list(window)[-10:]
RecentShown == 10
LastItems(w, n) == IF Len(w) <= n THEN w ELSE SubSeq(w, Len(w) - n + 1, Len(w))

\* a / b of two numbers, kept as the pair (a, b)
Ratio(a, b) == [num |-> a, den |-> b]

RECURSIVE Sum(_)
Sum(q) == IF q = <<>> THEN 0 ELSE Head(q) + Sum(Tail(q))

\* time.time() - self.start_time; the collector is created at time 0
get_uptime(m) == now

get_average_processing_time(m) ==
    IF m.processing_times = <<>> THEN Ratio(0, 1)
    ELSE Ratio(Sum(m.processing_times), Len(m.processing_times))

get_error_rate_of_successes(m) ==
    IF m.successful_analyses = 0 THEN Ratio(0, 1)
    ELSE Ratio(m.failed_analyses * 100, m.successful_analyses)

get_error_rate(m) ==
    IF m.total_analyses = 0 THEN Ratio(0, 1)
    ELSE Ratio(m.failed_analyses * 100, m.total_analyses)

\* get_recent_activity(minutes=5)
RECENT_MINUTES == 5

RECURSIVE Newer(_, _)
Newer(w, cutoff_time) ==
    IF w = <<>> THEN <<>>
    ELSE IF Head(w).timestamp > cutoff_time
         THEN <<Head(w)>> \o Newer(Tail(w), cutoff_time)
         ELSE Newer(Tail(w), cutoff_time)

get_recent_activity(m, minutes) == Newer(m.recent_analyses, now - minutes)

get_performance_summary(m) ==
    [uptime_seconds |-> get_uptime(m),
     total_analyses |-> m.total_analyses,
     successful_analyses |-> m.successful_analyses,
     failed_analyses |-> m.failed_analyses,
     success_rate |-> IF m.total_analyses > 0
                      THEN Ratio(m.successful_analyses * 100, m.total_analyses)
                      ELSE Ratio(0, 1),
     error_rate |-> get_error_rate(m),
     average_processing_time_ms |-> get_average_processing_time(m),
     predictions_distribution |-> m.predictions_distribution,
     recent_activity_count |-> Len(get_recent_activity(m, RECENT_MINUTES))]

get_all_metrics_recent_only(m) ==
    LET performance == get_performance_summary(m)
    IN  [taken |-> TRUE,
         seen |-> m,
         timestamp |-> now,
         uptime_seconds |-> performance.uptime_seconds,
         total_analyses |-> performance.total_analyses,
         successful_analyses |-> performance.successful_analyses,
         failed_analyses |-> performance.failed_analyses,
         success_rate |-> performance.success_rate,
         error_rate |-> performance.error_rate,
         average_processing_time_ms |-> performance.average_processing_time_ms,
         predictions_distribution |-> performance.predictions_distribution,
         recent_activity_count |-> performance.recent_activity_count,
         recent_errors |-> LastItems(m.errors, RecentShown),
         recent_analyses |->
             LastItems(get_recent_activity(m, RECENT_MINUTES), RecentShown)]

\* get_all_metrics: the timestamp, the entries of get_performance_summary
\* (under "performance" in the answer), the last errors and the last
\* analyses.  seen is the stored state the answer was computed from; it is
\* not part of the answer.
get_all_metrics(m) ==
    LET performance == get_performance_summary(m)
    IN  [taken |-> TRUE,
         seen |-> m,
         timestamp |-> now,
         uptime_seconds |-> performance.uptime_seconds,
         total_analyses |-> performance.total_analyses,
         successful_analyses |-> performance.successful_analyses,
         failed_analyses |-> performance.failed_analyses,
         success_rate |-> performance.success_rate,
         error_rate |-> performance.error_rate,
         average_processing_time_ms |-> performance.average_processing_time_ms,
         predictions_distribution |-> performance.predictions_distribution,
         recent_activity_count |-> performance.recent_activity_count,
         recent_errors |-> LastItems(m.errors, RecentShown),
         recent_analyses |-> LastItems(m.recent_analyses, RecentShown)]

-----------------------------------------------------------------------------
(* Specification of the windows: long runs of record_analysis and         *)
(* record_error, the n-th call of each passing n as its processing time   *)
(* or error                                                                *)

MetricsOnly ==
    /\ haarcascade = Verdict("unknown", 0)
    /\ dlib = Verdict("unknown", 0)
    /\ mobilenet = Verdict("unknown", 0)
    /\ fused = NoResult
    /\ photos = <<>>
    /\ max_concurrent = 1
    /\ caller = "none"
    /\ task = <<>>
    /\ sem_value = 0
    /\ sem_waiters = <<>>
    /\ started = 0
    /\ completed = <<>>
    /\ batch = [pc |-> "idle"]
    /\ analysis = AnalysisIdle

nonMetricsVars == <<haarcascade, dlib, mobilenet, fused, photos, max_concurrent,
                    caller, task, sem_value, sem_waiters, started, completed,
                    batch, analysis, sink, restVars>>

InitWindows ==
    /\ MetricsOnly
    /\ metrics = ZeroMetrics
    /\ snapshot = NoSnapshot
    /\ now = 0
    /\ sink = SinkIdle
    /\ RestIdle

WindowAnalysis ==
    /\ metrics.successful_analyses < PROCESSING_TIMES_MAXLEN + MaxOverflow
    /\ metrics' = record_analysis(metrics, "alert", 7,
                                  metrics.successful_analyses + 1)
    /\ UNCHANGED <<nonMetricsVars, snapshot, now>>

WindowError ==
    /\ metrics.failed_analyses < ERRORS_MAXLEN + MaxOverflow
    /\ metrics' = record_error(metrics, metrics.failed_analyses + 1)
    /\ UNCHANGED <<nonMetricsVars, snapshot, now>>

WindowReset ==
    /\ metrics.total_analyses > 0
    /\ metrics' = reset_metrics(metrics)
    /\ UNCHANGED <<nonMetricsVars, snapshot, now>>

NextWindows == WindowAnalysis \/ WindowError \/ WindowReset

SpecWindows == InitWindows /\ [][NextWindows]_vars

-----------------------------------------------------------------------------
(* Specification of the collector: any sequence of record_analysis,       *)
(* record_error, reset_metrics and get_all_metrics calls.  Each of them   *)
(* runs without an await, so each is one step of the event loop.          *)

ProcessingTimes == {2}
ErrorMessages == {"Failed to decode image"}

InitMetrics ==
    /\ MetricsOnly
    /\ metrics = ZeroMetrics
    /\ snapshot = NoSnapshot
    /\ now = 0
    /\ sink = SinkIdle
    /\ RestIdle

RecordAnalysis(prediction, confidence, processing_time) ==
    /\ metrics.total_analyses < MaxEvents
    /\ metrics' = record_analysis(metrics, prediction, confidence,
                                  processing_time)
    /\ UNCHANGED <<nonMetricsVars, snapshot, now>>

RecordError(error) ==
    /\ metrics.total_analyses < MaxEvents
    /\ metrics' = record_error(metrics, error)
    /\ UNCHANGED <<nonMetricsVars, snapshot, now>>

ResetMetrics ==
    /\ metrics' = reset_metrics(metrics)
    /\ UNCHANGED <<nonMetricsVars, snapshot, now>>

GetAllMetrics ==
    /\ snapshot' = get_all_metrics(metrics)
    /\ UNCHANGED <<nonMetricsVars, metrics, now>>

NextMetrics ==
    \/ \E prediction \in Predictions, processing_time \in ProcessingTimes :
           RecordAnalysis(prediction, 7, processing_time)
    \/ \E error \in ErrorMessages : RecordError(error)
    \/ ResetMetrics
    \/ GetAllMetrics

SpecMetrics == InitMetrics /\ [][NextMetrics]_vars

-----------------------------------------------------------------------------
(* Specification of the readers: record_analysis and record_error calls   *)
(* with different processing times, get_all_metrics calls, and the clock  *)
(* advancing between them.                                                 *)

ReadPredictions == {"alert", "drowsy"}
ReadProcessingTimes == {2, 4}

InitReads ==
    /\ MetricsOnly
    /\ metrics = ZeroMetrics
    /\ snapshot = NoSnapshot
    /\ now = 0
    /\ sink = SinkIdle
    /\ RestIdle

\* RECENT_MINUTES minutes pass
Tick ==
    /\ now < MaxClock * RECENT_MINUTES
    /\ now' = now + RECENT_MINUTES
    /\ UNCHANGED <<nonMetricsVars, metrics, snapshot>>

NextReads ==
    \/ \E prediction \in ReadPredictions,
          processing_time \in ReadProcessingTimes :
           RecordAnalysis(prediction, 7, processing_time)
    \/ \E error \in ErrorMessages : RecordError(error)
    \/ GetAllMetrics
    \/ Tick

SpecReads == InitReads /\ [][NextReads]_vars

-----------------------------------------------------------------------------
(* Single photo: PhotoProcessor.process_single_photo and what it calls *)

\* str(e) of the exceptions the workflow can raise
DownloadStatusError == "Failed to download image: 404"
DownloadNetworkError == "ConnectError"
DecodeError == "Failed to decode image"
AttributeError == "'FatigueAnalysisDetails' object has no attribute 'prediction'"
ValidationError == "1 validation error for BatchAnalysisResponse: total_processing_time field required"

\* What the GET of download_image can end with: status 200 with bytes that
\* decode, status 200 with bytes that do not decode, another status, an error
\* of the HTTP client.
Responses == {"image", "garbage", "status", "neterr"}

\* The verdicts the three adapters return for a decoded image, sampled.
AdapterRuns ==
    { <<Verdict("alert", 7), Verdict("drowsy", 8), Verdict("alert", 9)>>,
      <<Verdict("unknown", 0), Verdict("unknown", 0), Verdict("unknown", 0)>> }

NoOutcome == [kind |-> "none"]

Swallowed(msg) ==
    [kind |-> "response", photo_id |-> 0, prediction |-> "unknown",
     confidence |-> 0, error |-> msg]

Raised(msg) == [kind |-> "exception", error |-> msg]

\* The object analyze_fatigue returns: FatigueAnalysisDetails(ear=..,
\* head_pose=.., face_detected=.., eyes_detected=.., confidence=confidence,
\* haarcascade_results=.., dlib_results=.., mobilenet_results=..); the
\* declared field processing_time defaults to None. final_prediction is not
\* passed and the class declares no field for it.
FatigueAnalysisDetails(run, result) ==
    [confidence |-> result.confidence,
     processing_time |-> -1,
     haarcascade_results |-> run[1],
     dlib_results |-> run[2],
     mobilenet_results |-> run[3]]

\* Attribute read on a pydantic model: AttributeError unless the name is a
\* field of the object.
HasAttr(obj, name) == name \in DOMAIN obj

\* PhotoAnalysisResponse(photo_id=photo_id, prediction=results.prediction,
\* confidence=results.confidence, ...)
PhotoAnalysisResponse(photo_id, results) ==
    [kind |-> "response", photo_id |-> photo_id,
     prediction |-> results["prediction"], confidence |-> results.confidence]

\* process_single_photo from the return of analyze_fatigue to its own return
\* or raise (lines 57-84): the outcome of the coroutine.
single_photo_outcome(photo_id, results) ==
    IF HasAttr(results, "prediction")
    THEN PhotoAnalysisResponse(photo_id, results)
    ELSE Raised(AttributeError)

RecordOutcomeAsSuccess(m, outcome) ==
    IF outcome.kind = "response"
    THEN record_analysis(m, outcome.prediction, outcome.confidence, 0)
    ELSE record_analysis(m, "unknown", 0, 0)

RecordOutcomeSilentError(m, outcome) ==
    IF outcome.kind = "response"
    THEN record_analysis(m, outcome.prediction, outcome.confidence, 0)
    ELSE m

\* The metrics event of that outcome: record_analysis before the return,
\* record_error in the except clause.
RecordOutcome(m, outcome) ==
    IF outcome.kind = "response"
    THEN record_analysis(m, outcome.prediction, outcome.confidence, 0)
    ELSE record_error(m, outcome.error)

-----------------------------------------------------------------------------
(* asyncio.Semaphore and asyncio.gather as the batch uses them *)

never_locked(value) == FALSE

\* Semaphore.locked(): no slot can be taken at once
locked(value) == value = 0

N == Len(photos)

NewTask == [pc |-> "created", image_data |-> "none", verdicts |-> <<>>,
            fusion |-> NoResult, outcome |-> NoOutcome]

IsDone(t, i) == t[i].pc = "done"
Failed(t, i) == IsDone(t, i) /\ t[i].outcome.kind = "exception"

gather_first_exception(t) ==
    IF \E i \in 1..Len(t) : Failed(t, i)
    THEN [state |-> "raised",
          error |-> t[CHOOSE i \in 1..Len(t) : Failed(t, i)].outcome.error]
    ELSE IF \A i \in 1..Len(t) : IsDone(t, i)
         THEN [state |-> "returned", results |-> [i \in 1..Len(t) |-> t[i].outcome]]
         ELSE [state |-> "pending"]

\* await asyncio.gather(*tasks, return_exceptions=True): resumes the caller
\* once every task is done, with the outcomes in the order of the tasks, an
\* exception being the outcome of the task that raised it.
gather(t) ==
    IF \A i \in 1..Len(t) : IsDone(t, i)
    THEN [state |-> "returned", results |-> [i \in 1..Len(t) |-> t[i].outcome]]
    ELSE [state |-> "pending"]

RECURSIVE SeparateFrom(_, _, _, _, _, _)
SeparateFrom(i, last, ph, results, successful, failed) ==
    IF i > last THEN [successful |-> successful, failed |-> failed]
    ELSE IF results[i].kind = "exception"
         THEN SeparateFrom(i + 1, last, ph, results, successful,
                  Append(failed, [photo_id |-> ph[i].photo_id,
                                  error |-> results[i].error]))
         ELSE SeparateFrom(i + 1, last, ph, results,
                  Append(successful, results[i]), failed)

separate_results_short(ph, results) ==
    SeparateFrom(1, Len(results) - 1, ph, results, <<>>, <<>>)

separate_results_first_id(ph, results) ==
    SeparateFrom(1, Len(results), [i \in 1..Len(ph) |-> ph[1]], results,
                 <<>>, <<>>)

RECURSIVE Reverse(_)
Reverse(q) == IF q = <<>> THEN <<>> ELSE Append(Reverse(Tail(q)), Head(q))

separate_results_prepend(ph, results) ==
    LET lists == SeparateFrom(1, Len(results), ph, results, <<>>, <<>>)
    IN  [successful |-> Reverse(lists.successful),
         failed |-> Reverse(lists.failed)]

\* for i, result in enumerate(results): the two lists, in the order of the
\* tasks
separate_results(ph, results) ==
    SeparateFrom(1, Len(results), ph, results, <<>>, <<>>)

-----------------------------------------------------------------------------
(* The tasks: one per photo, created by process_batch_photos (behind the   *)
(* semaphore) or by the /analyze/batch handler (asyncio.create_task).      *)
(* An action is the run of one task between two suspension points.         *)

\* The first step of task i. The event loop runs the first steps in the
\* order the tasks were created. "async with semaphore" takes a slot or
\* queues the task; with a slot the task enters process_single_photo and
\* suspends in the GET of download_image.
TaskStart(i) ==
    /\ batch.pc = "gather"
    /\ i = started + 1
    /\ i <= N
    /\ task[i].pc = "created"
    /\ started' = i
    /\ IF caller = "batch" /\ locked(sem_value)
       THEN /\ task' = [task EXCEPT ![i].pc = "waiting"]
            /\ sem_waiters' = Append(sem_waiters, i)
            /\ UNCHANGED sem_value
       ELSE /\ task' = [task EXCEPT ![i].pc = "download"]
            /\ sem_value' = IF caller = "batch" THEN sem_value - 1 ELSE sem_value
            /\ UNCHANGED sem_waiters
    /\ UNCHANGED <<photos, max_concurrent, caller, completed, metrics, batch>>
    /\ UNCHANGED <<fusionVars, snapshot, analysis, now, sink, restVars>>

\* A waiter woken by a release returns from acquire and enters
\* process_single_photo.
TaskResume(i) ==
    /\ task[i].pc = "woken"
    /\ task' = [task EXCEPT ![i].pc = "download"]
    /\ UNCHANGED <<photos, max_concurrent, caller, sem_value, sem_waiters,
                   started, completed, metrics, batch>>
    /\ UNCHANGED <<fusionVars, snapshot, analysis, now, sink, restVars>>

FinishLeakingOnFailure(i, t, outcome) ==
    LET done == [t EXCEPT ![i].pc = "done", ![i].outcome = outcome]
    IN  /\ metrics' = RecordOutcome(metrics, outcome)
        /\ completed' = Append(completed, i)
        /\ IF outcome.kind = "exception"
           THEN /\ task' = done
                /\ UNCHANGED <<sem_value, sem_waiters>>
           ELSE IF caller = "batch" /\ sem_waiters # <<>>
                THEN /\ task' = [done EXCEPT ![Head(sem_waiters)].pc = "woken"]
                     /\ sem_waiters' = Tail(sem_waiters)
                     /\ UNCHANGED sem_value
                ELSE /\ task' = done
                     /\ sem_value' = IF caller = "batch" THEN sem_value + 1
                                     ELSE sem_value
                     /\ UNCHANGED sem_waiters

FinishWithoutRelease(i, t, outcome) ==
    LET done == [t EXCEPT ![i].pc = "done", ![i].outcome = outcome]
    IN  /\ metrics' = RecordOutcome(metrics, outcome)
        /\ completed' = Append(completed, i)
        /\ task' = done
        /\ UNCHANGED <<sem_value, sem_waiters>>

\* Task i ends with `outcome`: the metrics event of process_single_photo,
\* then the exit of "async with semaphore" (release: the slot goes to the
\* first waiter, or back to the semaphore), then the task is done.
Finish(i, t, outcome) ==
    LET done == [t EXCEPT ![i].pc = "done", ![i].outcome = outcome]
    IN  /\ metrics' = RecordOutcome(metrics, outcome)
        /\ completed' = Append(completed, i)
        /\ IF caller = "batch" /\ sem_waiters # <<>>
           THEN /\ task' = [done EXCEPT ![Head(sem_waiters)].pc = "woken"]
                /\ sem_waiters' = Tail(sem_waiters)
                /\ UNCHANGED sem_value
           ELSE /\ task' = done
                /\ sem_value' = IF caller = "batch" THEN sem_value + 1 ELSE sem_value
                /\ UNCHANGED sem_waiters

\* The GET of download_image completes (no I/O completes before the loop has
\* run the first step of every task). Without decodable bytes the exception
\* of download_image or of analyze_fatigue ("Failed to decode image") goes
\* through the except clause of process_single_photo; with them
\* analyze_fatigue suspends in the gather of the three adapters.
DownloadDone(i, resp) ==
    /\ task[i].pc = "download"
    /\ started = N
    /\ IF resp = "image"
       THEN /\ task' = [task EXCEPT ![i].pc = "adapters", ![i].image_data = resp]
            /\ UNCHANGED <<sem_value, sem_waiters, completed, metrics>>
       ELSE Finish(i, [task EXCEPT ![i].image_data = IF resp = "garbage"
                                                     THEN resp ELSE "none"],
                   Raised(CASE resp = "status" -> DownloadStatusError
                            [] resp = "neterr" -> DownloadNetworkError
                            [] OTHER -> DecodeError))
    /\ UNCHANGED <<photos, max_concurrent, caller, started, batch>>
    /\ UNCHANGED <<fusionVars, snapshot, analysis, now, sink, restVars>>

\* The three adapters have returned their verdicts: _combine_predictions,
\* the FatigueAnalysisDetails object, and the rest of process_single_photo.
AdaptersDone(i, run) ==
    /\ task[i].pc = "adapters"
    /\ LET result == combine_predictions(run[1], run[2], run[3])
           results == FatigueAnalysisDetails(run, result)
       IN  Finish(i, [task EXCEPT ![i].verdicts = run, ![i].fusion = result],
                  single_photo_outcome(photos[i].photo_id, results))
    /\ UNCHANGED <<photos, max_concurrent, caller, started, batch>>
    /\ UNCHANGED <<fusionVars, snapshot, analysis, now, sink, restVars>>

-----------------------------------------------------------------------------
(* PhotoProcessor.process_batch_photos *)

FusionIdle ==
    /\ haarcascade = Verdict("unknown", 0)
    /\ dlib = Verdict("unknown", 0)
    /\ mobilenet = Verdict("unknown", 0)
    /\ fused = NoResult
    /\ analysis = AnalysisIdle

PhotoList(n) == [i \in 1..n |-> [photo_id |-> 100 + i, gcs_url |-> 200 + i]]

InitBatch ==
    /\ FusionIdle
    /\ \E n \in 0..MaxPhotos : photos = PhotoList(n)
    /\ max_concurrent \in 1..MaxConcurrent
    /\ caller = "batch"
    /\ task = [i \in 1..Len(photos) |-> NewTask]
    /\ sem_value = 0
    /\ sem_waiters = <<>>
    /\ started = 0
    /\ completed = <<>>
    /\ metrics = ZeroMetrics
    /\ batch = [pc |-> "called"]
    /\ snapshot = NoSnapshot
    /\ now = 0
    /\ sink = SinkIdle
    /\ RestIdle

\* semaphore = asyncio.Semaphore(max_concurrent); the coroutines; the await
\* of the gather
BatchStart ==
    /\ caller = "batch"
    /\ batch.pc = "called"
    /\ sem_value' = max_concurrent
    /\ batch' = [pc |-> "gather"]
    /\ UNCHANGED <<photos, max_concurrent, caller, task, sem_waiters, started,
                   completed, metrics>>
    /\ UNCHANGED <<fusionVars, snapshot, analysis, now, sink, restVars>>

\* The gather resumes process_batch_photos: the two lists and the returned
\* dict, or the except clause re-raising what the gather raised.
BatchCollect ==
    /\ caller = "batch"
    /\ batch.pc = "gather"
    /\ LET g == gather(task)
       IN  /\ g.state # "pending"
           /\ IF g.state = "raised"
              THEN batch' = [pc |-> "raised", error |-> g.error]
              ELSE LET lists == separate_results(photos, g.results)
                   IN  batch' = [pc |-> "returned",
                                 successful |-> lists.successful,
                                 failed |-> lists.failed,
                                 total |-> Len(photos)]
    /\ UNCHANGED <<photos, max_concurrent, caller, task, sem_value, sem_waiters,
                   started, completed, metrics>>
    /\ UNCHANGED <<fusionVars, snapshot, analysis, now, sink, restVars>>

NextBatch ==
    \/ BatchStart
    \/ \E i \in 1..N : TaskStart(i)
    \/ \E i \in 1..N : TaskResume(i)
    \/ \E i \in 1..N : \E resp \in Responses : DownloadDone(i, resp)
    \/ \E i \in 1..N : \E run \in AdapterRuns : AdaptersDone(i, run)
    \/ BatchCollect

SpecBatch == InitBatch /\ [][NextBatch]_vars

\* The batch with a reader: GET /metrics is served between two steps of the
\* tasks, that is at any of their suspension points.
NextBatchRead ==
    \/ NextBatch
    \/ GetAllMetrics

SpecBatchRead == InitBatch /\ [][NextBatchRead]_vars

\* The batch on a running event loop: a task that is ready to run is run
\* (its first step, its return from acquire, the caller's return from the
\* gather), and the download and the analysis of every item complete or
\* fail.
BatchFairness ==
    /\ WF_vars(BatchStart)
    /\ WF_vars(\E i \in 1..N : TaskStart(i))
    /\ WF_vars(\E i \in 1..N : TaskResume(i))
    /\ WF_vars(\E i \in 1..N : \E resp \in Responses : DownloadDone(i, resp))
    /\ WF_vars(\E i \in 1..N : \E run \in AdapterRuns : AdaptersDone(i, run))
    /\ WF_vars(BatchCollect)

SpecBatchLive == InitBatch /\ [][NextBatch]_vars /\ BatchFairness

-----------------------------------------------------------------------------
(* main.py: the /analyze/batch handler analyze_batch_photos, for a request *)
(* that passed verify_ai_token                                             *)

\* The fields BatchAnalysisResponse declares with Field(...): all required.
BatchAnalysisResponseFields ==
    {"total_photos", "successful", "failed", "results", "failed_photos",
     "total_processing_time"}

\* Construction of the pydantic model: a ValidationError when a required
\* field is not given.
BatchAnalysisResponse(kwargs) ==
    IF BatchAnalysisResponseFields \subseteq DOMAIN kwargs
    THEN [ok |-> TRUE, value |-> kwargs]
    ELSE [ok |-> FALSE, error |-> ValidationError]

InitHandler ==
    /\ FusionIdle
    /\ \E n \in 0..MaxPhotos : photos = PhotoList(n)
    /\ max_concurrent = 1
    /\ caller = "handler"
    /\ task = [i \in 1..Len(photos) |-> NewTask]
    /\ sem_value = 0
    /\ sem_waiters = <<>>
    /\ started = 0
    /\ completed = <<>>
    /\ metrics = ZeroMetrics
    /\ batch = [pc |-> "called"]
    /\ snapshot = NoSnapshot
    /\ now = 0
    /\ sink = SinkIdle
    /\ RestIdle

\* asyncio.create_task(process_single_photo(...)) for each photo of the
\* request, then the await of the gather
HandlerStart ==
    /\ caller = "handler"
    /\ batch.pc = "called"
    /\ batch' = [pc |-> "gather"]
    /\ UNCHANGED <<photos, max_concurrent, caller, task, sem_value, sem_waiters,
                   started, completed, metrics>>
    /\ UNCHANGED <<fusionVars, snapshot, analysis, now, sink, restVars>>

\* The gather resumes the handler: the two lists, then
\* BatchAnalysisResponse(total_photos=.., successful=.., failed=..,
\* results=.., failed_photos=..); an exception goes to the except clause:
\* record_error and HTTPException(status_code=500).
HandlerCollect ==
    /\ caller = "handler"
    /\ batch.pc = "gather"
    /\ LET g == gather(task)
       IN  /\ g.state = "returned"
           /\ LET lists == separate_results(photos, g.results)
                  response == BatchAnalysisResponse(
                      [total_photos |-> Len(photos),
                       successful |-> Len(lists.successful),
                       failed |-> Len(lists.failed),
                       results |-> lists.successful,
                       failed_photos |-> lists.failed])
              IN  IF response.ok
                  THEN /\ batch' = [pc |-> "returned", response |-> response.value]
                       /\ UNCHANGED metrics
                  ELSE /\ batch' = [pc |-> "http_error", status_code |-> 500,
                                    detail |-> response.error]
                       /\ metrics' = record_error(metrics, response.error)
    /\ UNCHANGED <<photos, max_concurrent, caller, task, sem_value, sem_waiters,
                   started, completed>>
    /\ UNCHANGED <<fusionVars, snapshot, analysis, now, sink, restVars>>

NextHandler ==
    \/ HandlerStart
    \/ \E i \in 1..N : TaskStart(i)
    \/ \E i \in 1..N : \E resp \in Responses : DownloadDone(i, resp)
    \/ \E i \in 1..N : \E run \in AdapterRuns : AdaptersDone(i, run)
    \/ HandlerCollect

SpecHandler == InitHandler /\ [][NextHandler]_vars

-----------------------------------------------------------------------------
(* wakesafe_client.py: the result sink.  The handlers hand                 *)
(* update_ai_results / update_batch_results to background_tasks.add_task;  *)
(* the call runs on the event loop beside the requests handled then.       *)

\* What the PUT of update_ai_results can end with: status 200, another
\* status, an error of the HTTP client.
PutReplies == {"200", "500", "ConnectError"}

Return(value) == [kind |-> "return", value |-> value]

\* The results objects update_ai_results is handed: the object
\* analyze_fatigue builds, and an object that has the prediction attribute
\* the payload reads.
SinkResults ==
    LET run == <<Verdict("alert", 7), Verdict("drowsy", 8), Verdict("alert", 9)>>
        real == FatigueAnalysisDetails(run, combine_predictions(run[1], run[2], run[3]))
    IN  { real,
          [prediction |-> "alert",
           confidence |-> real.confidence,
           processing_time |-> real.processing_time,
           haarcascade_results |-> real.haarcascade_results,
           dlib_results |-> real.dlib_results,
           mobilenet_results |-> real.mobilenet_results] }

update_ai_results_unguarded(results, reply) ==
    IF ~HasAttr(results, "prediction") THEN Raised(AttributeError)
    ELSE IF reply = "ConnectError" THEN Raised(DownloadNetworkError)
    ELSE Return(reply = "200")

\* update_ai_results: the payload and the PUT inside try; True for status
\* 200, False for another status, False from "except Exception".
update_ai_results(results, reply) ==
    IF ~HasAttr(results, "prediction") THEN Return(FALSE)
    ELSE IF reply = "ConnectError" THEN Return(FALSE)
    ELSE Return(reply = "200")

\* update_batch_results after its gather(return_exceptions=True):
\* successful counts the updates that are True, the value is failed == 0.
update_batch_results(updates) ==
    LET successful == Cardinality({k \in 1..Len(updates) :
                                      updates[k] = Return(TRUE)})
        failed == Len(updates) - successful
    IN  Return(failed = 0)

\* The calls a background task makes.
SinkCalls ==
    { [pc |-> "scheduled", call |-> "update_ai_results", args |-> <<r>>] :
          r \in SinkResults }
    \cup
    { [pc |-> "scheduled", call |-> "update_batch_results", args |-> a] :
          a \in UNION { [1..n -> SinkResults] : n \in 0..MaxSink } }

\* A background call made for an earlier request, and a batch request
\* arriving.
InitSink ==
    /\ FusionIdle
    /\ \E n \in 0..MaxSinkPhotos : photos = PhotoList(n)
    /\ max_concurrent = 1
    /\ caller = "handler"
    /\ task = [i \in 1..Len(photos) |-> NewTask]
    /\ sem_value = 0
    /\ sem_waiters = <<>>
    /\ started = 0
    /\ completed = <<>>
    /\ metrics = ZeroMetrics
    /\ batch = [pc |-> "called"]
    /\ snapshot = NoSnapshot
    /\ now = 0
    /\ sink \in SinkCalls
    /\ RestIdle

sinkFrame == <<fusionVars, photos, max_concurrent, caller, task, sem_value,
               sem_waiters, started, completed, metrics, batch, snapshot,
               analysis, now, restVars>>

\* The background task starts the call. update_batch_results returns True at
\* once for an empty list; otherwise every update_ai_results coroutine runs
\* up to its first await.
SinkStart ==
    /\ sink.pc = "scheduled"
    /\ IF sink.call = "update_batch_results" /\ sink.args = <<>>
       THEN sink' = [pc |-> "returned", call |-> sink.call, args |-> sink.args,
                     updates |-> <<>>, outcome |-> Return(TRUE)]
       ELSE sink' = [pc |-> "running", call |-> sink.call, args |-> sink.args,
                     updates |-> [k \in 1..Len(sink.args) |-> NoOutcome],
                     outcome |-> NoOutcome]
    /\ UNCHANGED sinkFrame

\* The k-th update_ai_results ends, the PUT having ended with `reply` if the
\* call got that far.
SinkUpdate(k, reply) ==
    /\ sink.pc = "running"
    /\ k \in 1..Len(sink.args)
    /\ sink.updates[k] = NoOutcome
    /\ sink' = [sink EXCEPT !.updates[k] = update_ai_results(sink.args[k], reply)]
    /\ UNCHANGED sinkFrame

\* The call ends for the background task: the value of the single update,
\* or, after the gather, the value of update_batch_results; an exception of
\* a directly called update_ai_results would reach the background task.
SinkEnd ==
    /\ sink.pc = "running"
    /\ \A k \in 1..Len(sink.args) : sink.updates[k] # NoOutcome
    /\ LET outcome == IF sink.call = "update_ai_results"
                      THEN sink.updates[1]
                      ELSE update_batch_results(sink.updates)
       IN  sink' = [sink EXCEPT !.pc = IF outcome.kind = "exception"
                                       THEN "raised" ELSE "returned",
                                !.outcome = outcome]
    /\ UNCHANGED sinkFrame

NextSink ==
    \/ HandlerStart
    \/ \E i \in 1..N : TaskStart(i)
    \/ \E i \in 1..N : \E resp \in Responses : DownloadDone(i, resp)
    \/ \E i \in 1..N : \E run \in AdapterRuns : AdaptersDone(i, run)
    \/ HandlerCollect
    \/ SinkStart
    \/ \E k \in 1..MaxSink : \E reply \in PutReplies : SinkUpdate(k, reply)
    \/ SinkEnd

SpecSink == InitSink /\ [][NextSink]_vars

-----------------------------------------------------------------------------
(* Startup and health: FatigueDetectionService.initialize_models and its   *)
(* loaders, check_models_status, and the /health handler of main.py.  What *)
(* loading a model file does is the input of a startup: the constructor    *)
(* returns a usable object ("ok"), an empty classifier ("empty"), or       *)
(* raises ("raises").                                                      *)

LoadFacts ==
    [face : {"ok", "empty", "raises"}, eye : {"ok", "empty", "raises"},
     detector : {"ok", "raises"}, predictor : {"ok", "raises"},
     interpreter : {"ok", "raises"}, allocate : {"ok", "raises"}]

\* The handle an assignment leaves in the attribute
Handle(fact) == IF fact = "ok" THEN "model" ELSE "empty"

\* _load_haarcascade_models: the service after the call and whether it raised
load_haarcascade_models(svc, f) ==
    IF f.face = "raises" THEN [svc |-> svc, raised |-> TRUE]
    ELSE LET s1 == [svc EXCEPT !.face_cascade = Handle(f.face)]
         IN  IF f.face = "empty" \/ f.eye = "raises"
             THEN [svc |-> s1, raised |-> TRUE]
             ELSE [svc |-> [s1 EXCEPT !.eye_cascade = Handle(f.eye)],
                   raised |-> f.eye = "empty"]

\* _load_dlib_models
load_dlib_models(svc, f) ==
    IF f.detector = "raises" THEN [svc |-> svc, raised |-> TRUE]
    ELSE LET s1 == [svc EXCEPT !.dlib_detector = "model"]
         IN  IF f.predictor = "raises"
             THEN [svc |-> s1, raised |-> TRUE]
             ELSE [svc |-> [s1 EXCEPT !.shape_predictor = "model"],
                   raised |-> FALSE]

\* _load_mobilenet_model: tf.lite.Interpreter(...), then allocate_tensors()
load_mobilenet_model(svc, f) ==
    IF f.interpreter = "raises" THEN [svc |-> svc, raised |-> TRUE]
    ELSE [svc |-> [svc EXCEPT !.mobilenet_model = "model"],
          raised |-> f.allocate = "raises"]

check_models_status_by_handles(svc) ==
    [haarcascade_loaded |->
         svc.face_cascade # "None" /\ svc.eye_cascade # "None",
     dlib_loaded |->
         svc.dlib_detector # "None" /\ svc.shape_predictor # "None",
     mobilenet_loaded |-> svc.mobilenet_model # "None",
     all_models_loaded |-> svc.mobilenet_model # "None"]

\* check_models_status
check_models_status(svc) ==
    [haarcascade_loaded |->
         svc.face_cascade # "None" /\ svc.eye_cascade # "None",
     dlib_loaded |->
         svc.dlib_detector # "None" /\ svc.shape_predictor # "None",
     mobilenet_loaded |-> svc.mobilenet_model # "None",
     all_models_loaded |-> svc.models_loaded]

\* Python values of the services_status dict: a bool, or a dict
Bool(b) == [type |-> "bool", value |-> b]
Dict(d) == [type |-> "dict", value |-> d]

\* bool(x) as all() applies it: a dict is true unless it is empty
Truthy(x) == IF x.type = "bool" THEN x.value ELSE DOMAIN x.value # {}

\* all(services_status.values())
all_values(d) == \A k \in DOMAIN d : Truthy(d[k])

HealthValidationError == "1 validation error for HealthCheckResponse: services -> models"

\* HealthCheckResponse(status=.., services=.., version=..): services is
\* declared Dict[str, bool]; a value that is a dict is a ValidationError.
HealthCheckResponse(status, services) ==
    IF \A k \in DOMAIN services : services[k].type = "bool"
    THEN [ok |-> TRUE, status |-> status, services |-> services]
    ELSE [ok |-> FALSE, error |-> HealthValidationError]

\* the empty dict services={}
EmptyDict == [k \in {} |-> Bool(TRUE)]

\* health_check, the WakeSafe API check returning wakesafe_api: the body of
\* the try, and the except clause returning "unhealthy" with services={}.
health_check(svc, wakesafe_api) ==
    LET services_status ==
            [database |-> Bool(TRUE),
             redis |-> Bool(TRUE),
             models |-> Dict(check_models_status(svc)),
             wakesafe_api |-> Bool(wakesafe_api)]
        all_healthy == all_values(services_status)
        response == HealthCheckResponse(
                        IF all_healthy THEN "healthy" ELSE "unhealthy",
                        services_status)
    IN  IF response.ok THEN response
        ELSE HealthCheckResponse("unhealthy", EmptyDict)

\* The service as main.py constructs it, with what the model files will do,
\* and no request yet.
InitHealth ==
    /\ FusionIdle
    /\ photos = <<>>
    /\ max_concurrent = 1
    /\ caller = "none"
    /\ task = <<>>
    /\ sem_value = 0
    /\ sem_waiters = <<>>
    /\ started = 0
    /\ completed = <<>>
    /\ metrics = ZeroMetrics
    /\ batch = [pc |-> "idle"]
    /\ snapshot = NoSnapshot
    /\ now = 0
    /\ sink = SinkIdle
    /\ \E f \in LoadFacts : service = [ServiceNew EXCEPT !.files = f]
    /\ health = HealthIdle
    /\ interp = InterpIdle
    /\ auth = AuthIdle

healthFrame == <<fusionVars, photos, max_concurrent, caller, task, sem_value,
                 sem_waiters, started, completed, metrics, batch, snapshot,
                 analysis, now, sink, interp, auth>>

\* lifespan: await initialize_models(), up to the await of the gather
InitializeModels ==
    /\ service.pc = "constructed"
    /\ service' = [service EXCEPT !.pc = "haarcascade"]
    /\ UNCHANGED <<health, healthFrame>>

\* One loader, a coroutine without an await: the gather runs the three one
\* after the other, a loader that raised not stopping the next ones.
LoadHaarcascade ==
    /\ service.pc = "haarcascade"
    /\ LET r == load_haarcascade_models(service, service.files)
       IN  service' = [r.svc EXCEPT !.pc = "dlib", !.failed = @ \/ r.raised]
    /\ UNCHANGED <<health, healthFrame>>

LoadDlib ==
    /\ service.pc = "dlib"
    /\ LET r == load_dlib_models(service, service.files)
       IN  service' = [r.svc EXCEPT !.pc = "mobilenet", !.failed = @ \/ r.raised]
    /\ UNCHANGED <<health, healthFrame>>

LoadMobilenet ==
    /\ service.pc = "mobilenet"
    /\ LET r == load_mobilenet_model(service, service.files)
       IN  service' = [r.svc EXCEPT !.pc = "gathered", !.failed = @ \/ r.raised]
    /\ UNCHANGED <<health, healthFrame>>

\* The gather resumes initialize_models: models_loaded = True, or the
\* except clause re-raising, which ends the startup.
InitializeReturn ==
    /\ service.pc = "gathered"
    /\ service' = IF service.failed
                  THEN [service EXCEPT !.pc = "startup_failed"]
                  ELSE [service EXCEPT !.models_loaded = TRUE, !.pc = "serving"]
    /\ UNCHANGED <<health, healthFrame>>

\* GET /health, served once the startup is through, or by an application
\* whose lifespan has not run.
HealthCheck(wakesafe_api) ==
    /\ service.pc \in {"constructed", "serving"}
    /\ health' = [pc |-> "responded", wakesafe_api |-> wakesafe_api,
                  models |-> check_models_status(service),
                  response |-> health_check(service, wakesafe_api)]
    /\ UNCHANGED <<service, healthFrame>>

NextHealth ==
    \/ InitializeModels
    \/ LoadHaarcascade
    \/ LoadDlib
    \/ LoadMobilenet
    \/ InitializeReturn
    \/ \E wakesafe_api \in BOOLEAN : HealthCheck(wakesafe_api)

SpecHealth == InitHealth /\ [][NextHealth]_vars

-----------------------------------------------------------------------------
(* The detector adapters of fatigue_detection.py.  What the detectors and  *)
(* the classifier find in an image is the input: whether the adapter's own *)
(* code raises, the number of faces and eyes, the eye aspect ratio (in     *)
(* hundredths), the head pose (in degrees) and the classifier's output     *)
(* vector (in tenths).                                                      *)

EAR_THRESHOLD == 20
EAR_DROWSY == 25
HEAD_POSE_THRESHOLD == 15

HaarError == "haarcascade raised"
DlibError == "dlib raised"
MobilenetError == "mobilenet raised"

Abs(x) == IF x < 0 THEN -x ELSE x
Max2(a, b) == IF a >= b THEN a ELSE b

HeadPose(pitch, yaw, roll) == [pitch |-> pitch, yaw |-> yaw, roll |-> roll]

haarcascade_analysis_one_eye(f) ==
    IF f.fault
    THEN [face_detected |-> FALSE, eyes_detected |-> FALSE,
          prediction |-> "unknown", confidence |-> 0, error |-> HaarError]
    ELSE LET face_detected == f.faces > 0
             eye_count == IF face_detected THEN f.eye_count ELSE 0
             eyes_detected == face_detected /\ eye_count >= 1
         IN  [face_detected |-> face_detected,
              eyes_detected |-> eyes_detected,
              eye_count |-> eye_count,
              prediction |-> IF ~face_detected THEN "unknown"
                             ELSE IF ~eyes_detected THEN "sleeping"
                             ELSE "alert",
              confidence |-> IF ~face_detected THEN 0
                             ELSE IF ~eyes_detected THEN 8
                             ELSE 7,
              faces_detected |-> f.faces]

\* _haarcascade_analysis on an image for which the cascades find
\* f.faces faces and f.eye_count eyes in the largest face, or raise (f.fault)
haarcascade_analysis(f) ==
    IF f.fault
    THEN [face_detected |-> FALSE, eyes_detected |-> FALSE,
          prediction |-> "unknown", confidence |-> 0, error |-> HaarError]
    ELSE LET face_detected == f.faces > 0
             eye_count == IF face_detected THEN f.eye_count ELSE 0
             eyes_detected == face_detected /\ eye_count >= 2
         IN  [face_detected |-> face_detected,
              eyes_detected |-> eyes_detected,
              eye_count |-> eye_count,
              prediction |-> IF ~face_detected THEN "unknown"
                             ELSE IF ~eyes_detected THEN "sleeping"
                             ELSE "alert",
              confidence |-> IF ~face_detected THEN 0
                             ELSE IF ~eyes_detected THEN 8
                             ELSE 7,
              faces_detected |-> f.faces]

\* _calculate_ear: its own except clause returns 0.0
calculate_ear(f) == IF f.ear_fault THEN 0 ELSE f.ear

\* _calculate_head_pose: its own except clause, and an unsuccessful
\* solvePnP, return HeadPose(0, 0, 0)
calculate_head_pose(f) == IF f.pose_fault THEN HeadPose(0, 0, 0) ELSE f.head_pose

analyze_dlib_metrics_inclusive(ear, head_pose) ==
    LET ear_prediction == IF ear <= EAR_THRESHOLD THEN "sleeping"
                          ELSE IF ear <= EAR_DROWSY THEN "drowsy"
                          ELSE "alert"
        ear_confidence == IF ear <= EAR_THRESHOLD THEN 9
                          ELSE IF ear <= EAR_DROWSY THEN 7
                          ELSE 8
        head_tilt == Abs(head_pose.pitch) + Abs(head_pose.roll)
        pose_prediction == IF head_tilt >= HEAD_POSE_THRESHOLD
                           THEN "drowsy" ELSE "alert"
        pose_confidence == IF head_tilt >= HEAD_POSE_THRESHOLD THEN 8 ELSE 6
    IN  IF ear_prediction = "sleeping"
        THEN [prediction |-> "sleeping", confidence |-> ear_confidence]
        ELSE IF ear_prediction = "drowsy" \/ pose_prediction = "drowsy"
        THEN [prediction |-> "drowsy",
              confidence |-> Max2(ear_confidence, pose_confidence)]
        ELSE [prediction |-> "alert",
              confidence |-> Max2(ear_confidence, pose_confidence)]

analyze_dlib_metrics(ear, head_pose) ==
    LET ear_prediction == IF ear < EAR_THRESHOLD THEN "sleeping"
                          ELSE IF ear < EAR_DROWSY THEN "drowsy"
                          ELSE "alert"
        ear_confidence == IF ear < EAR_THRESHOLD THEN 9
                          ELSE IF ear < EAR_DROWSY THEN 7
                          ELSE 8
        head_tilt == Abs(head_pose.pitch) + Abs(head_pose.roll)
        pose_prediction == IF head_tilt > HEAD_POSE_THRESHOLD
                           THEN "drowsy" ELSE "alert"
        pose_confidence == IF head_tilt > HEAD_POSE_THRESHOLD THEN 8 ELSE 6
    IN  IF ear_prediction = "sleeping"
        THEN [prediction |-> "sleeping", confidence |-> ear_confidence]
        ELSE IF ear_prediction = "drowsy" \/ pose_prediction = "drowsy"
        THEN [prediction |-> "drowsy",
              confidence |-> Max2(ear_confidence, pose_confidence)]
        ELSE [prediction |-> "alert",
              confidence |-> Max2(ear_confidence, pose_confidence)]

\* _dlib_analysis
dlib_analysis(f) ==
    IF f.fault
    THEN [face_detected |-> FALSE, ear |-> 0, head_pose |-> HeadPose(0, 0, 0),
          prediction |-> "unknown", confidence |-> 0, error |-> DlibError]
    ELSE IF f.faces = 0
    THEN [face_detected |-> FALSE, ear |-> 0, head_pose |-> HeadPose(0, 0, 0),
          prediction |-> "unknown", confidence |-> 0]
    ELSE LET ear == calculate_ear(f)
             head_pose == calculate_head_pose(f)
             verdict == analyze_dlib_metrics(ear, head_pose)
         IN  [face_detected |-> TRUE, ear |-> ear, head_pose |-> head_pose,
              prediction |-> verdict.prediction,
              confidence |-> verdict.confidence]

\* np.argmax: the first position of the largest value, counted from 0
RECURSIVE ArgMaxFrom(_, _, _)
ArgMaxFrom(v, k, best) ==
    IF k > Len(v) THEN best - 1
    ELSE ArgMaxFrom(v, k + 1, IF v[k] > v[best] THEN k ELSE best)

argmax(v) == ArgMaxFrom(v, 2, 1)

class_mapping_from_one(class_index) ==
    CASE class_index = 1 -> "alert"
      [] class_index = 2 -> "drowsy"
      [] class_index = 3 -> "sleeping"
      [] OTHER -> "unknown"

\* class_mapping.get(class_index, "unknown")
class_mapping(class_index) ==
    CASE class_index = 0 -> "alert"
      [] class_index = 1 -> "drowsy"
      [] class_index = 2 -> "sleeping"
      [] OTHER -> "unknown"

mobilenet_analysis_unguarded(f) ==
    IF f.fault
    THEN [raised |-> MobilenetError]
    ELSE LET class_index == argmax(f.output)
         IN  [prediction |-> class_mapping(class_index),
              confidence |-> f.output[class_index + 1],
              class_index |-> class_index,
              all_predictions |-> f.output]

\* _mobilenet_analysis on an image for which the interpreter returns the
\* vector f.output, or raises (f.fault)
mobilenet_analysis(f) ==
    IF f.fault
    THEN [prediction |-> "unknown", confidence |-> 0, error |-> MobilenetError]
    ELSE LET class_index == argmax(f.output)
         IN  [prediction |-> class_mapping(class_index),
              confidence |-> f.output[class_index + 1],
              class_index |-> class_index,
              all_predictions |-> f.output]

-----------------------------------------------------------------------------
(* Specification of analyze_fatigue on a decoded image.  The three         *)
(* adapters are coroutines without an await: gather runs them one after    *)
(* the other, in the order of the list, each in one step.                  *)

HaarFacts ==
    { [fault |-> TRUE, faces |-> 0, eye_count |-> 0],
      [fault |-> FALSE, faces |-> 0, eye_count |-> 0] }
    \cup [fault : {FALSE}, faces : 1..2, eye_count : 0..MaxEyes]

EarValues == {0, 19, 20, 24, 25, 30}
Pitches == {-16, -10, 0, 15}
Rolls == {-5, 0, 1, 6}

EarFacts ==
    { [ear_fault |-> TRUE, ear |-> 0] }
    \cup [ear_fault : {FALSE}, ear : EarValues]

PoseFacts ==
    { [pose_fault |-> TRUE, head_pose |-> HeadPose(0, 0, 0)] }
    \cup { [pose_fault |-> FALSE, head_pose |-> HeadPose(p, 0, r)] :
             p \in Pitches, r \in Rolls }

DlibFacts ==
    { [fault |-> TRUE, faces |-> 0, ear_fault |-> FALSE, ear |-> 0,
       pose_fault |-> FALSE, head_pose |-> HeadPose(0, 0, 0)],
      [fault |-> FALSE, faces |-> 0, ear_fault |-> FALSE, ear |-> 0,
       pose_fault |-> FALSE, head_pose |-> HeadPose(0, 0, 0)] }
    \cup { [fault |-> FALSE, faces |-> 1, ear_fault |-> e.ear_fault,
            ear |-> e.ear, pose_fault |-> p.pose_fault,
            head_pose |-> p.head_pose] : e \in EarFacts, p \in PoseFacts }

\* output vectors of the classifier: three classes, or a model with a
\* fourth class
Outputs ==
    { <<7, 2, 1>>, <<1, 8, 1>>, <<0, 1, 9>>, <<4, 4, 2>>, <<0, 0, 10>>,
      <<1, 1, 1, 7>>, <<3, 3, 3, 1>> }

MobilenetFacts ==
    { [fault |-> TRUE, output |-> <<0, 0, 0>>] }
    \cup [fault : {FALSE}, output : Outputs]

Images == [haarcascade : HaarFacts, dlib : DlibFacts, mobilenet : MobilenetFacts]

NoVerdict == [pending |-> TRUE]

InitAnalyze ==
    /\ analysis \in [pc : {"haarcascade"}, image : Images]
    /\ haarcascade = NoVerdict
    /\ dlib = NoVerdict
    /\ mobilenet = NoVerdict
    /\ fused = NoResult
    /\ photos = <<>>
    /\ max_concurrent = 1
    /\ caller = "none"
    /\ task = <<>>
    /\ sem_value = 0
    /\ sem_waiters = <<>>
    /\ started = 0
    /\ completed = <<>>
    /\ metrics = ZeroMetrics
    /\ batch = [pc |-> "idle"]
    /\ snapshot = NoSnapshot
    /\ now = 0
    /\ sink = SinkIdle
    /\ RestIdle

analyzeFrame == <<photos, max_concurrent, caller, task, sem_value, sem_waiters,
                  started, completed, metrics, batch, snapshot, now, sink, restVars>>

\* an adapter that raises ends the gather and analyze_fatigue re-raises
HasRaised(r) == "raised" \in DOMAIN r

HaarcascadeAnalysis ==
    /\ analysis.pc = "haarcascade"
    /\ LET r == haarcascade_analysis(analysis.image.haarcascade)
       IN  IF HasRaised(r)
           THEN /\ analysis' = [analysis EXCEPT !.pc = "raised"]
                /\ UNCHANGED haarcascade
           ELSE /\ analysis' = [analysis EXCEPT !.pc = "dlib"]
                /\ haarcascade' = r
    /\ UNCHANGED <<dlib, mobilenet, fused, analyzeFrame>>

DlibAnalysis ==
    /\ analysis.pc = "dlib"
    /\ LET r == dlib_analysis(analysis.image.dlib)
       IN  IF HasRaised(r)
           THEN /\ analysis' = [analysis EXCEPT !.pc = "raised"]
                /\ UNCHANGED dlib
           ELSE /\ analysis' = [analysis EXCEPT !.pc = "mobilenet"]
                /\ dlib' = r
    /\ UNCHANGED <<haarcascade, mobilenet, fused, analyzeFrame>>

MobilenetAnalysis ==
    /\ analysis.pc = "mobilenet"
    /\ LET r == mobilenet_analysis(analysis.image.mobilenet)
       IN  IF HasRaised(r)
           THEN /\ analysis' = [analysis EXCEPT !.pc = "raised"]
                /\ UNCHANGED mobilenet
           ELSE /\ analysis' = [analysis EXCEPT !.pc = "combine"]
                /\ mobilenet' = r
    /\ UNCHANGED <<haarcascade, dlib, fused, analyzeFrame>>

CombinePredictions ==
    /\ analysis.pc = "combine"
    /\ fused' = combine_predictions(haarcascade, dlib, mobilenet)
    /\ analysis' = [analysis EXCEPT !.pc = "returned"]
    /\ UNCHANGED <<haarcascade, dlib, mobilenet, analyzeFrame>>

NextAnalyze ==
    \/ HaarcascadeAnalysis
    \/ DlibAnalysis
    \/ MobilenetAnalysis
    \/ CombinePredictions

SpecAnalyze == InitAnalyze /\ [][NextAnalyze]_vars

-----------------------------------------------------------------------------
(* The classifier interpreter self.mobilenet_model, shared by the          *)
(* _mobilenet_analysis coroutines of the analyses in flight.  A call is    *)
(* set_tensor, invoke, get_tensor and the reading of the output; the event *)
(* loop gives the interpreter to another coroutine only where the running  *)
(* one is suspended.                                                       *)

\* What the classifier does with the image of a call: the output vector it
\* computes for it, or an exception raised by invoke
InterpImages ==
    { [fault |-> FALSE, output |-> <<7, 2, 1>>],
      [fault |-> FALSE, output |-> <<0, 1, 9>>],
      [fault |-> TRUE, output |-> <<0, 0, 0>>] }

NewCall(image) == [pc |-> "scheduled", image |-> image, read |-> "none",
                   verdict |-> NoVerdict]

Calls == 1..Len(interp.calls)

SuspendedAnywhere(pc) == TRUE

\* The positions at which a _mobilenet_analysis coroutine is not running:
\* before its first step and after its return. Its body has no await.
Suspended(pc) == pc \in {"scheduled", "done"}

\* The event loop runs a step of call i: no other coroutine is in the
\* middle of its run
Runs(i) ==
    /\ i \in Calls
    /\ \A j \in Calls \ {i} : Suspended(interp.calls[j].pc)

InitInterp ==
    /\ FusionIdle
    /\ photos = <<>>
    /\ max_concurrent = 1
    /\ caller = "none"
    /\ task = <<>>
    /\ sem_value = 0
    /\ sem_waiters = <<>>
    /\ started = 0
    /\ completed = <<>>
    /\ metrics = ZeroMetrics
    /\ batch = [pc |-> "idle"]
    /\ snapshot = NoSnapshot
    /\ now = 0
    /\ sink = SinkIdle
    /\ service = ServiceReady
    /\ health = HealthIdle
    /\ \E n \in 1..MaxCalls : \E images \in [1..n -> InterpImages] :
          interp = [input |-> "none", output |-> "none",
                    calls |-> [i \in 1..n |-> NewCall(images[i])]]
    /\ auth = AuthIdle

interpFrame == <<fusionVars, photos, max_concurrent, caller, task, sem_value,
                 sem_waiters, started, completed, metrics, batch, snapshot,
                 analysis, now, sink, service, health, auth>>

\* self.mobilenet_model.set_tensor(input index, processed_image)
SetTensor(i) ==
    /\ Runs(i)
    /\ interp.calls[i].pc = "scheduled"
    /\ interp' = [interp EXCEPT !.input = [call |-> i,
                                           image |-> interp.calls[i].image],
                                !.calls[i].pc = "set"]
    /\ UNCHANGED interpFrame

\* self.mobilenet_model.invoke(): the output of the image in the input
\* tensor; an exception leaves the output tensor as it was and goes to the
\* except clause of the adapter, which returns the unknown verdict
Invoke(i) ==
    /\ Runs(i)
    /\ interp.calls[i].pc = "set"
    /\ IF interp.input.image.fault
       THEN interp' = [interp EXCEPT
                !.calls[i].pc = "done",
                !.calls[i].verdict = mobilenet_analysis(interp.input.image)]
       ELSE interp' = [interp EXCEPT
                !.output = [call |-> interp.input.call,
                            output |-> interp.input.image.output],
                !.calls[i].pc = "invoked"]
    /\ UNCHANGED interpFrame

\* output = self.mobilenet_model.get_tensor(output index), the arg-max, the
\* mapping and the return
GetTensor(i) ==
    /\ Runs(i)
    /\ interp.calls[i].pc = "invoked"
    /\ interp' = [interp EXCEPT
            !.calls[i].pc = "done",
            !.calls[i].read = interp.output,
            !.calls[i].verdict =
                mobilenet_analysis([fault |-> FALSE,
                                    output |-> interp.output.output])]
    /\ UNCHANGED interpFrame

NextInterp ==
    \/ \E i \in 1..MaxCalls : SetTensor(i)
    \/ \E i \in 1..MaxCalls : Invoke(i)
    \/ \E i \in 1..MaxCalls : GetTensor(i)

SpecInterp == InitInterp /\ [][NextInterp]_vars

-----------------------------------------------------------------------------
(* app/core/auth.py: verify_ai_token, the dependency of the protected      *)
(* handlers.  A header value and the configured key are strings, written   *)
(* as sequences of pieces: the piece "Bearer " and single characters.      *)

Bearer == "Bearer "
Pieces == {Bearer, "s", "x"}

Strings(n) == UNION { [1..k -> Pieces] : k \in 0..n }

\* Header(None): no Authorization header
NoHeader == [present |-> FALSE, value |-> <<>>]
HeaderValue(v) == [present |-> TRUE, value |-> v]

\* values of settings.AI_SERVER_SECRET_KEY: the default "" and two keys
SecretKeys == { <<>>, <<"s">>, <<"s", "x">> }

\* authorization.startswith("Bearer ")
startswith_bearer(v) == Len(v) >= 1 /\ v[1] = Bearer

\* authorization.replace("Bearer ", ""): every occurrence is removed
replace_bearer(v) == SelectSeq(v, LAMBDA piece : piece # Bearer)

Unauthorized(detail) == [admitted |-> FALSE, status_code |-> 401, detail |-> detail]

\* verify_ai_token: the HTTPExceptions raised inside the try are caught by
\* "except Exception" and raised again as 401 "Authentication failed".
verify_ai_token(authorization, secret_key) ==
    IF ~authorization.present \/ authorization.value = <<>>
    THEN Unauthorized("Authorization header missing")
    ELSE IF ~startswith_bearer(authorization.value)
         THEN Unauthorized("Authentication failed")
         ELSE LET token == replace_bearer(authorization.value)
              IN  IF token # secret_key
                  THEN Unauthorized("Authentication failed")
                  ELSE [admitted |-> TRUE, token |-> token]

\* A request to /analyze arrives at a server with a configured key.
InitAuth ==
    /\ FusionIdle
    /\ photos = <<>>
    /\ max_concurrent = 1
    /\ caller = "none"
    /\ task = <<>>
    /\ sem_value = 0
    /\ sem_waiters = <<>>
    /\ started = 0
    /\ completed = <<>>
    /\ metrics = ZeroMetrics
    /\ batch = [pc |-> "idle"]
    /\ snapshot = NoSnapshot
    /\ now = 0
    /\ sink = SinkIdle
    /\ service = ServiceReady
    /\ health = HealthIdle
    /\ interp = InterpIdle
    /\ \E key \in SecretKeys :
       \E h \in {NoHeader} \cup {HeaderValue(v) : v \in Strings(MaxHeader)} :
          auth = [pc |-> "received", authorization |-> h, secret_key |-> key]

authFrame == <<fusionVars, photos, max_concurrent, caller, task, sem_value,
               sem_waiters, started, completed, batch, snapshot, analysis,
               now, sink, service, health, interp>>

\* Depends(verify_ai_token): the token, or the 401 response
VerifyToken ==
    /\ auth.pc = "received"
    /\ LET r == verify_ai_token(auth.authorization, auth.secret_key)
       IN  auth' = [pc |-> IF r.admitted THEN "admitted" ELSE "rejected",
                    authorization |-> auth.authorization,
                    secret_key |-> auth.secret_key,
                    result |-> r]
    /\ UNCHANGED <<metrics, authFrame>>

\* The body of analyze_single_photo for an admitted request: the download
\* or the analysis fails, or results.prediction does; the except clause
\* records the error and answers 500.
HandlerBody(error) ==
    /\ auth.pc = "admitted"
    /\ metrics' = record_error(metrics, error)
    /\ auth' = [auth EXCEPT !.pc = "handled"]
    /\ UNCHANGED authFrame

NextAuth ==
    \/ VerifyToken
    \/ \E error \in {DownloadStatusError, DecodeError, AttributeError} :
          HandlerBody(error)

SpecAuth == InitAuth /\ [][NextAuth]_vars

-----------------------------------------------------------------------------
(* Properties of the single photo workflow and of the batch *)

Items == 1..N

\* C1: when the download returns bytes that decode and the adapters return
\* their verdicts, process_single_photo returns a record with the caller's
\* photo_id and the fused prediction and confidence.
C1_AnalyzerReturnsRecord ==
    \A i \in Items :
        (IsDone(task, i) /\ task[i].image_data = "image"
            /\ task[i].fusion # NoResult) =>
            /\ task[i].outcome.kind = "response"
            /\ task[i].outcome.photo_id = photos[i].photo_id
            /\ task[i].outcome.prediction = task[i].fusion.prediction
            /\ task[i].outcome.prediction \in Predictions
            /\ task[i].outcome.confidence = task[i].fusion.confidence

Returned == batch.pc = "returned"

\* Number of entries of the list `entries` that carry the photo_id of item i
EntriesOf(entries, i) ==
    Cardinality({k \in 1..Len(entries) : entries[k].photo_id = photos[i].photo_id})

FailedItems == {i \in Items : Failed(task, i)}

\* C2: in the outcome of process_batch_photos the two lists together have
\* total = number of input items entries, and every input item is in exactly
\* one of the two lists.
C2_Partition ==
    (caller = "batch" /\ Returned) =>
        /\ Len(batch.successful) + Len(batch.failed) = batch.total
        /\ batch.total = Len(photos)
        /\ \A i \in Items :
              EntriesOf(batch.successful, i) + EntriesOf(batch.failed, i) = 1

C2_Witness ==
    /\ caller = "batch"
    /\ Returned
    /\ N >= 2
    /\ Len(batch.failed) = N
    /\ \E i, j \in Items : task[i].outcome.error # task[j].outcome.error

\* The tasks that hold a slot: past "async with semaphore", inside
\* process_single_photo.
Active == {i \in Items : task[i].pc \in {"download", "adapters"}}
Queued == {i \in Items : task[i].pc = "waiting"}
\* The tasks a release has handed a slot to and that have not resumed yet
Woken == {i \in Items : task[i].pc = "woken"}

\* C3: at most max_concurrent tasks are inside process_single_photo at any
\* time (counting the tasks a slot has just been handed to), and a task
\* waits only while no slot is free.
C3_ConcurrencyBound ==
    caller = "batch" =>
        /\ Cardinality(Active \cup Woken) <= max_concurrent
        /\ Queued # {} => sem_value = 0
        /\ Queued = {sem_waiters[k] : k \in 1..Len(sem_waiters)}

C3_Witness ==
    /\ caller = "batch"
    /\ Cardinality(Active) = max_concurrent
    /\ max_concurrent >= 2
    /\ Queued # {}
    /\ \E i \in Active : task[i].pc = "adapters"

BatchOver == batch.pc \in {"returned", "raised"}

\* C4: the failure of one task stops no other task: when the batch call is
\* over every task has run to its own end, and the end of each is in the
\* outcome, a failure in the failed list and a record in the successful one.
C4_SiblingsComplete ==
    (caller = "batch" /\ BatchOver) =>
        /\ \A i \in Items : IsDone(task, i)
        /\ Returned
        /\ \A i \in Items :
              IF Failed(task, i)
              THEN EntriesOf(batch.failed, i) = 1
              ELSE EntriesOf(batch.successful, i) = 1

C4_Witness ==
    /\ caller = "batch"
    /\ Returned
    /\ N >= 2
    /\ task[completed[1]].outcome.error = DownloadStatusError
    /\ task[completed[N]].outcome.error = AttributeError
    /\ task[completed[N]].pc = "done"

\* C5: process_batch_photos never raises to its caller, and what it returns
\* has the three parts successful, failed and total, also when every item
\* fails.
C5_NeverRaises ==
    caller = "batch" =>
        /\ batch.pc # "raised"
        /\ Returned =>
              /\ {"successful", "failed", "total"} \subseteq DOMAIN batch
              /\ batch.total = N
              /\ Len(batch.failed) = Cardinality(FailedItems)

C5_Witness ==
    /\ caller = "batch"
    /\ Returned
    /\ N >= 2
    /\ FailedItems = Items
    /\ Len(batch.failed) = N

\* C6: every entry of the outcome carries the photo_id of the item whose
\* task produced it: an entry of failed is the photo_id and the error of one
\* failed task, an entry of successful is the record its task returned with
\* the photo_id of that task's item, whatever the completion order.
C6_Identity ==
    (caller = "batch" /\ Returned) =>
        /\ \A k \in 1..Len(batch.failed) :
              \E i \in FailedItems :
                  /\ batch.failed[k].photo_id = photos[i].photo_id
                  /\ batch.failed[k].error = task[i].outcome.error
        /\ \A i \in FailedItems :
              \E k \in 1..Len(batch.failed) :
                  /\ batch.failed[k].photo_id = photos[i].photo_id
                  /\ batch.failed[k].error = task[i].outcome.error
        /\ \A k \in 1..Len(batch.successful) :
              \E i \in Items \ FailedItems :
                  /\ batch.successful[k] = task[i].outcome
                  /\ batch.successful[k].photo_id = photos[i].photo_id

C6_Witness ==
    /\ caller = "batch"
    /\ Returned
    /\ N >= 2
    /\ completed[1] # 1
    /\ Len(batch.failed) >= 2
    /\ batch.failed[1].error # batch.failed[2].error

HandlerOver == batch.pc \in {"returned", "http_error"}

\* C7: the /analyze/batch handler answers an authenticated request with a
\* BatchAnalysisResponse whose total_photos is the number of requested
\* photos and whose successful + failed is total_photos.
C7_BatchResponse ==
    (caller = "handler" /\ HandlerOver) =>
        /\ Returned
        /\ batch.response.total_photos = N
        /\ batch.response.successful + batch.response.failed
              = batch.response.total_photos

-----------------------------------------------------------------------------
(* Properties of process_single_photo inside a batch                       *)

DoneItems == {i \in Items : IsDone(task, i)}

\* C15: every invocation of process_single_photo records exactly one metrics
\* event, a record_analysis or a record_error, never both and never none:
\* the collector has counted one analysis per task that returned, one error
\* per task that raised, and nothing for the tasks still running.
C15_OneEvent ==
    caller = "batch" =>
        /\ metrics.total_analyses = Cardinality(DoneItems)
        /\ metrics.failed_analyses = Cardinality(FailedItems)
        /\ metrics.successful_analyses = Cardinality(DoneItems \ FailedItems)
        /\ Len(metrics.errors) = Cardinality(FailedItems)
        /\ Len(metrics.recent_analyses) = Cardinality(DoneItems \ FailedItems)
        /\ Len(metrics.processing_times) = Cardinality(DoneItems \ FailedItems)
        /\ \A k \in 1..Len(metrics.errors) :
              \E i \in FailedItems : metrics.errors[k].error = task[i].outcome.error

C15_Witness ==
    /\ caller = "batch"
    /\ \E i, j, k \in Items :
          /\ Failed(task, i) /\ task[i].outcome.error = DownloadStatusError
          /\ Failed(task, j) /\ task[j].outcome.error = AttributeError
          /\ ~IsDone(task, k) /\ task[k].pc = "adapters"

Undecodable(t, i) == t[i].image_data = "garbage"

\* the step in which analyze_fatigue fails to decode the bytes of item i
DecodeFails(i) == ~Undecodable(task, i) /\ Undecodable(task', i)

\* the step in which process_batch_photos returns
BatchReturns == batch.pc # "returned" /\ batch'.pc = "returned"

\* C19: an undecodable image stays at item level.  In the step where the
\* decode of item i fails, process_single_photo of i records exactly one
\* error and raises "Failed to decode image", and no other item's outcome
\* changes; when the batch returns, i is one entry {photo_id, error} of the
\* failed list and no entry of the successful list, and the batch itself
\* does not raise.
C19_DecodeFailureIsLocal ==
    [][caller = "batch" =>
        /\ \A i \in Items : DecodeFails(i) =>
              /\ task'[i].pc = "done"
              /\ task'[i].outcome.kind = "exception"
              /\ task'[i].outcome.error = DecodeError
              /\ metrics'.failed_analyses = metrics.failed_analyses + 1
              /\ metrics'.total_analyses = metrics.total_analyses + 1
              /\ metrics'.successful_analyses = metrics.successful_analyses
              /\ \A j \in Items \ {i} : task'[j].outcome = task[j].outcome
              /\ batch' = batch
        /\ BatchReturns =>
              \A i \in Items : Undecodable(task, i) =>
                  /\ EntriesOf(batch'.successful, i) = 0
                  /\ EntriesOf(batch'.failed, i) = 1
                  /\ \E k \in 1..Len(batch'.failed) :
                        batch'.failed[k] = [photo_id |-> photos[i].photo_id,
                                            error |-> DecodeError]
        /\ (\E i \in Items : Undecodable(task, i)) => batch'.pc # "raised"
    ]_vars

C19_Witness ==
    /\ caller = "batch"
    /\ Returned
    /\ \E i, j \in Items :
          /\ Undecodable(task, i)
          /\ ~Undecodable(task, j)
          /\ completed[1] = i
          /\ task[j].outcome.error = AttributeError
          /\ EntriesOf(batch.failed, i) = 1

\* the input position of the item an entry belongs to
ItemOf(entry) == CHOOSE i \in Items : photos[i].photo_id = entry.photo_id
\* the position of item i in the order of completion
CompletionRank(i) == CHOOSE k \in 1..Len(completed) : completed[k] = i

InOrder(entries, Rank(_)) ==
    \A k, l \in 1..Len(entries) :
        k < l => Rank(ItemOf(entries[k])) < Rank(ItemOf(entries[l]))

InputRank(i) == i

\* C20 (as stated): in the outcome of process_batch_photos the entries of
\* the successful list and of the failed list are in the order in which the
\* items' tasks completed.
C20_CompletionOrder ==
    (caller = "batch" /\ Returned) =>
        /\ InOrder(batch.successful, CompletionRank)
        /\ InOrder(batch.failed, CompletionRank)

\* C20 (amended): in the outcome of process_batch_photos the entries of the
\* successful list and of the failed list are in the order of the items in
\* the input list, whatever the order in which the tasks completed.
C20_InputOrder ==
    (caller = "batch" /\ Returned) =>
        /\ InOrder(batch.successful, InputRank)
        /\ InOrder(batch.failed, InputRank)

C20_Witness ==
    /\ caller = "batch"
    /\ Returned
    /\ Len(batch.failed) >= 3
    /\ completed[2] > completed[3]
    /\ ItemOf(batch.failed[1]) = completed[Len(completed)]

\* the tasks whose analyze_fatigue call has reached the fusion
FusedItems == {i \in Items : task[i].fusion # NoResult}

C32_CountersMatchOutcome ==
    (caller = "batch" /\ Returned) =>
        /\ metrics.total_analyses = N
        /\ metrics.successful_analyses = Len(batch.successful)
        /\ metrics.failed_analyses = Len(batch.failed)

C32_Witness ==
    /\ caller = "batch"
    /\ Returned
    /\ N = MaxPhotos
    /\ max_concurrent > 1
    /\ completed # [i \in 1..N |-> i]
    /\ metrics.total_analyses = N
    /\ Len(batch.failed) = N

\* C33 (as stated): the /analyze/batch handler adds no metrics event of its
\* own: when a request over N photos is over, total_analyses has changed by
\* exactly N, one event per photo.
C33_HandlerAddsNoEvent ==
    (caller = "handler" /\ HandlerOver) => metrics.total_analyses = N

-----------------------------------------------------------------------------
(* Properties of the detector adapters inside analyze_fatigue             *)

\* the verdicts the adapters have returned so far
Returns == {v \in {haarcascade, dlib, mobilenet} : v # NoVerdict}

Analyzing == analysis.pc # "idle"

\* C12 (as stated): every verdict an adapter returns, on every path, has a
\* prediction among alert, drowsy, sleeping, unknown, a confidence in
\* [0, 1], and confidence 0.0 whenever the prediction is unknown.
C12_VerdictShape ==
    Analyzing =>
        \A v \in Returns :
            /\ v.prediction \in Predictions
            /\ v.confidence \in 0..10
            /\ v.prediction = "unknown" => v.confidence = 0

WellFormed(v) ==
    /\ {"prediction", "confidence"} \subseteq DOMAIN v
    /\ v.prediction \in Predictions
    /\ v.confidence \in Int

AdapterRaised(name) == analysis.image[name].fault

\* C13: no adapter call raises to analyze_fatigue: whichever adapters fail
\* inside, analyze_fatigue does not raise, the other adapters still run, and
\* the fusion receives three verdicts with a prediction and a confidence.
C13_AdaptersNeverRaise ==
    Analyzing =>
        /\ analysis.pc # "raised"
        /\ analysis.pc \in {"combine", "returned"} =>
              /\ WellFormed(haarcascade)
              /\ WellFormed(dlib)
              /\ WellFormed(mobilenet)
              /\ AdapterRaised("haarcascade") => "error" \in DOMAIN haarcascade
              /\ AdapterRaised("dlib") => "error" \in DOMAIN dlib
              /\ AdapterRaised("mobilenet") => "error" \in DOMAIN mobilenet
              /\ ~AdapterRaised("haarcascade") => "error" \notin DOMAIN haarcascade
              /\ ~AdapterRaised("dlib") => "error" \notin DOMAIN dlib
              /\ ~AdapterRaised("mobilenet") => "error" \notin DOMAIN mobilenet
        /\ analysis.pc = "returned" => fused # NoResult

C13_Witness ==
    /\ analysis.pc = "returned"
    /\ AdapterRaised("haarcascade")
    /\ AdapterRaised("mobilenet")
    /\ ~AdapterRaised("dlib")
    /\ dlib.prediction = "drowsy"
    /\ fused.prediction = "drowsy"

\* something failed inside the dlib adapter: its own code, or the EAR or the
\* head pose computation it ran on a detected face
DlibFailure ==
    LET f == analysis.image.dlib
    IN  f.fault \/ (f.faces > 0 /\ (f.ear_fault \/ f.pose_fault))

ErrorVerdict(v) ==
    /\ v.prediction = "unknown"
    /\ v.confidence = 0
    /\ "error" \in DOMAIN v

\* C14 (as stated): any failure inside an adapter, a failed EAR or head pose
\* computation included, gives the verdict unknown / 0.0 with an error
\* detail, never a label other than unknown.
C14_FailureIsUnknown ==
    Analyzing =>
        /\ (haarcascade # NoVerdict /\ AdapterRaised("haarcascade"))
              => ErrorVerdict(haarcascade)
        /\ (dlib # NoVerdict /\ DlibFailure) => ErrorVerdict(dlib)
        /\ (mobilenet # NoVerdict /\ AdapterRaised("mobilenet"))
              => ErrorVerdict(mobilenet)

\* the cascade adapter ran to its end on the image
HaarRan == haarcascade # NoVerdict /\ ~AdapterRaised("haarcascade")

\* C23: the verdict of _haarcascade_analysis depends on its detections
\* only: no face gives unknown / 0.0, a face with fewer than two eyes in the
\* largest face gives sleeping / 0.8, a face with two eyes or more gives
\* alert / 0.7.
C23_CascadePolicy ==
    (Analyzing /\ HaarRan) =>
        LET f == analysis.image.haarcascade
        IN  /\ f.faces = 0 =>
                 haarcascade.prediction = "unknown" /\ haarcascade.confidence = 0
            /\ (f.faces > 0 /\ f.eye_count < 2) =>
                 haarcascade.prediction = "sleeping" /\ haarcascade.confidence = 8
            /\ (f.faces > 0 /\ f.eye_count >= 2) =>
                 haarcascade.prediction = "alert" /\ haarcascade.confidence = 7

C23_Witness ==
    /\ Analyzing
    /\ HaarRan
    /\ analysis.image.haarcascade.faces = 2
    /\ analysis.image.haarcascade.eye_count = 1
    /\ haarcascade.prediction = "sleeping"

\* the dlib adapter found a face and both of its computations succeeded
DlibMeasured ==
    /\ dlib # NoVerdict
    /\ ~DlibFailure
    /\ analysis.image.dlib.faces > 0

\* the two signals as the policy states them, in hundredths and degrees
EarSignal(ear) ==
    IF ear < 20 THEN <<"sleeping", 9>>
    ELSE IF ear < 25 THEN <<"drowsy", 7>>
    ELSE <<"alert", 8>>

PoseSignal(pitch, roll) ==
    IF Abs(pitch) + Abs(roll) > 15 THEN <<"drowsy", 8>> ELSE <<"alert", 6>>

\* C24: _analyze_dlib_metrics gives sleeping / 0.9 when EAR < 0.20;
\* otherwise drowsy when 0.20 <= EAR < 0.25 or |pitch| + |roll| > 15;
\* otherwise alert; the confidence of a drowsy or alert verdict is the larger
\* of the EAR signal's (0.7 drowsy, 0.8 alert) and the pose signal's (0.8
\* drowsy, 0.6 alert).  EAR = 0.20 is drowsy, EAR = 0.25 and tilt = 15 are
\* alert.
C24_DlibPolicy ==
    (Analyzing /\ DlibMeasured) =>
        LET f == analysis.image.dlib
            e == EarSignal(f.ear)
            p == PoseSignal(f.head_pose.pitch, f.head_pose.roll)
        IN  /\ e[1] = "sleeping" =>
                 dlib.prediction = "sleeping" /\ dlib.confidence = 9
            /\ (e[1] # "sleeping" /\ (e[1] = "drowsy" \/ p[1] = "drowsy")) =>
                 dlib.prediction = "drowsy" /\ dlib.confidence = Max2(e[2], p[2])
            /\ (e[1] = "alert" /\ p[1] = "alert") =>
                 dlib.prediction = "alert" /\ dlib.confidence = Max2(e[2], p[2])
            /\ (f.ear = 20 /\ p[1] = "alert") =>
                 dlib.prediction = "drowsy" /\ dlib.confidence = 7
            /\ (f.ear = 25 /\ Abs(f.head_pose.pitch) + Abs(f.head_pose.roll) = 15)
                 => dlib.prediction = "alert" /\ dlib.confidence = 8

C24_Witness ==
    /\ Analyzing
    /\ DlibMeasured
    /\ analysis.image.dlib.ear = 25
    /\ analysis.image.dlib.head_pose.pitch = -10
    /\ analysis.image.dlib.head_pose.roll = -5
    /\ dlib.prediction = "alert"

MobilenetRan == mobilenet # NoVerdict /\ ~AdapterRaised("mobilenet")

\* k is the arg-max of the vector: the first position holding the largest
\* value
IsArgMax(v, k) ==
    /\ \A j \in 1..Len(v) : v[j] <= v[k]
    /\ \A j \in 1..(k - 1) : v[j] < v[k]

\* C25: _mobilenet_analysis labels the output by its arg-max index: index 0
\* alert, 1 drowsy, 2 sleeping, with the arg-max probability as confidence,
\* and every other index unknown.
C25_ClassifierMapping ==
    (Analyzing /\ MobilenetRan) =>
        LET v == analysis.image.mobilenet.output
        IN  \A k \in 1..Len(v) : IsArgMax(v, k) =>
               /\ k = 1 => mobilenet.prediction = "alert"
               /\ k = 2 => mobilenet.prediction = "drowsy"
               /\ k = 3 => mobilenet.prediction = "sleeping"
               /\ k <= 3 => mobilenet.confidence = v[k]
               /\ k > 3 => mobilenet.prediction = "unknown"

C25_Witness ==
    /\ Analyzing
    /\ MobilenetRan
    /\ analysis.image.mobilenet.output = <<4, 4, 2>>
    /\ mobilenet.prediction = "alert"
    /\ mobilenet.confidence = 4

-----------------------------------------------------------------------------
(* Properties of the metrics collector                                     *)

Min(a, b) == IF a <= b THEN a ELSE b

\* C16: in every state of the collector reached by any sequence of
\* record_analysis, record_error and reset_metrics calls, total_analyses
\* equals successful_analyses plus failed_analyses.
C16_TotalIsSum ==
    metrics.total_analyses
        = metrics.successful_analyses + metrics.failed_analyses

C16_Witness ==
    /\ metrics.successful_analyses > 0
    /\ metrics.failed_analyses > 0
    /\ snapshot.taken
    /\ snapshot.total_analyses > metrics.total_analyses

\* the window holds the last Min(n, maxlen) of the entries 1..n, oldest first
HoldsMostRecent(window, n, maxlen) ==
    /\ Len(window) = Min(n, maxlen)
    /\ \A k \in 1..Len(window) : window[k] = n - Len(window) + k

\* C17: none of the windows processing_times (1000), errors (100) and
\* recent_analyses (100) ever holds more entries than its capacity, and
\* after n insertions each holds exactly the last Min(n, capacity) inserted
\* entries in insertion order.
C17_Windows ==
    /\ Len(metrics.processing_times) <= PROCESSING_TIMES_MAXLEN
    /\ Len(metrics.errors) <= ERRORS_MAXLEN
    /\ Len(metrics.recent_analyses) <= RECENT_ANALYSES_MAXLEN
    /\ HoldsMostRecent(metrics.processing_times,
                       metrics.successful_analyses, PROCESSING_TIMES_MAXLEN)
    /\ HoldsMostRecent([k \in 1..Len(metrics.errors) |->
                           metrics.errors[k].error],
                       metrics.failed_analyses, ERRORS_MAXLEN)
    /\ HoldsMostRecent([k \in 1..Len(metrics.recent_analyses) |->
                           metrics.recent_analyses[k].processing_time],
                       metrics.successful_analyses, RECENT_ANALYSES_MAXLEN)

C17_Witness ==
    /\ metrics.successful_analyses > PROCESSING_TIMES_MAXLEN
    /\ metrics.failed_analyses > ERRORS_MAXLEN
    /\ metrics.processing_times[1] > 1
    /\ metrics.errors[1].error > 1

RECURSIVE SumOver(_, _)
SumOver(f, keys) ==
    IF keys = {} THEN 0
    ELSE LET k == CHOOSE x \in keys : TRUE
         IN  f[k] + SumOver(f, keys \ {k})

\* what a reader can tell from one answer of get_all_metrics
Coherent(snap) ==
    /\ snap.total_analyses = snap.successful_analyses + snap.failed_analyses
    /\ SumOver(snap.predictions_distribution, Predictions)
           = snap.successful_analyses
    /\ Len(snap.recent_errors) = Min(snap.failed_analyses, RecentShown)
    /\ Len(snap.recent_analyses) = Min(snap.successful_analyses, RecentShown)

\* C18: reset_metrics is one step for the readers: every answer of
\* get_all_metrics shows the collector either wholly before or wholly after
\* a reset, never with some counters cleared and other fields not, and a
\* reset step leaves every counter, the distribution and every window empty.
C18_ResetAtomic ==
    /\ snapshot.taken => Coherent(snapshot)
    /\ metrics.total_analyses = 0 => metrics = ZeroMetrics

C18_Witness ==
    /\ snapshot.taken
    /\ snapshot.total_analyses = 0
    /\ metrics.total_analyses > 0
    /\ metrics.failed_analyses > 0

\* the counters, rates, distribution and window contents of two answers
\* are the same
SameReadings(a, b) ==
    /\ a.total_analyses = b.total_analyses
    /\ a.successful_analyses = b.successful_analyses
    /\ a.failed_analyses = b.failed_analyses
    /\ a.success_rate = b.success_rate
    /\ a.error_rate = b.error_rate
    /\ a.average_processing_time_ms = b.average_processing_time_ms
    /\ a.predictions_distribution = b.predictions_distribution
    /\ a.recent_errors = b.recent_errors
    /\ a.recent_analyses = b.recent_analyses

StoredFields ==
    {"total_analyses", "successful_analyses", "failed_analyses",
     "predictions_distribution", "processing_times", "errors",
     "recent_analyses"}

\* the pair r stands for the number a / b
IsRatio(r, a, b) == r.den # 0 /\ r.num * b = a * r.den

\* C26: the derived metrics are computed from the stored state when read:
\* error_rate is failed_analyses / total_analyses x 100, and 0 when
\* total_analyses is 0; the average processing time is the mean of the
\* entries in the processing_times window, and 0 when it is empty; the
\* collector stores no derived value, before or after record_analysis,
\* record_error and reset_metrics.
C26_DerivedOnRead ==
    /\ DOMAIN metrics = StoredFields
    /\ DOMAIN reset_metrics(metrics) = StoredFields
    /\ snapshot.taken =>
          LET m == snapshot.seen
              times == m.processing_times
          IN  /\ m.total_analyses = 0 => IsRatio(snapshot.error_rate, 0, 1)
              /\ m.total_analyses > 0 =>
                    IsRatio(snapshot.error_rate, m.failed_analyses * 100,
                            m.total_analyses)
              /\ times = <<>> =>
                    IsRatio(snapshot.average_processing_time_ms, 0, 1)
              /\ times # <<>> =>
                    IsRatio(snapshot.average_processing_time_ms,
                            SumOver(times, DOMAIN times), Len(times))

C26_Witness ==
    /\ snapshot.taken
    /\ snapshot.seen.failed_analyses = 1
    /\ snapshot.seen.processing_times = <<4>>
    /\ snapshot.error_rate = Ratio(100, 2)
    /\ snapshot.average_processing_time_ms = Ratio(4, 1)
    /\ metrics.processing_times = <<4, 2>>

\* C34: in every reachable state of the collector, counting the events
\* since the last reset, the counts of predictions_distribution add up to
\* successful_analyses, processing_times holds min(successful_analyses, 1000)
\* entries, recent_analyses min(successful_analyses, 100) and errors
\* min(failed_analyses, 100).
C34_WindowsFollowCounters ==
    /\ SumOver(metrics.predictions_distribution, Predictions)
           = metrics.successful_analyses
    /\ Len(metrics.processing_times) = Min(metrics.successful_analyses, 1000)
    /\ Len(metrics.recent_analyses) = Min(metrics.successful_analyses, 100)
    /\ Len(metrics.errors) = Min(metrics.failed_analyses, 100)

C34_Witness ==
    /\ metrics.successful_analyses = 1001
    /\ Len(metrics.processing_times) = 1000
    /\ Len(metrics.recent_analyses) = 100
    /\ metrics.failed_analyses = 101
    /\ Len(metrics.errors) = 100

\* every event the collector holds is held whole: in the counters, in the
\* distribution and in the windows
Whole(m) ==
    /\ m.total_analyses = m.successful_analyses + m.failed_analyses
    /\ SumOver(m.predictions_distribution, Predictions) = m.successful_analyses
    /\ Len(m.processing_times) = Min(m.successful_analyses, PROCESSING_TIMES_MAXLEN)
    /\ Len(m.recent_analyses) = Min(m.successful_analyses, RECENT_ANALYSES_MAXLEN)
    /\ Len(m.errors) = Min(m.failed_analyses, ERRORS_MAXLEN)

\* C27: record_analysis and record_error run without a suspension point, so
\* a reader served at any suspension point of the analyses of a running
\* batch never sees a torn update: its answer holds every finished analysis
\* whole (counter, distribution or error window) and nothing of the analyses
\* still in flight.
C27_NoTornUpdate ==
    [][snapshot' # snapshot =>
          /\ Whole(snapshot'.seen)
          /\ Coherent(snapshot')
          /\ snapshot'.total_analyses = Len(completed)
          /\ snapshot'.failed_analyses = Cardinality(FailedItems)
      ]_vars

C27_Witness ==
    /\ snapshot.taken
    /\ snapshot.total_analyses = 1
    /\ Len(snapshot.recent_errors) = 1
    /\ Len(completed) = 1
    /\ Active # {}
    /\ Queued # {}

-----------------------------------------------------------------------------
(* Properties of the concurrency of the batch and of the handler *)

\* the invocations of process_single_photo that have started and not ended
InFlight == {i \in Items : task[i].pc \in {"download", "adapters"}}

\* C28 (as stated): in the /analyze/batch handler the number of
\* process_single_photo invocations in flight together stays under a cap that
\* does not depend on the number of photos of the request: it stays below
\* the size of the largest request.
C28_HandlerCap ==
    caller = "handler" => Cardinality(InFlight) < MaxPhotos

\* C35: the slots of the semaphore of process_batch_photos are conserved:
\* the free slots and the slots held by tasks inside process_single_photo
\* (or just handed one) always add up to max_concurrent, a task that has
\* finished, by return or by raise, holds none, and when the batch has
\* returned all max_concurrent slots are free.
C35_SlotsConserved ==
    (caller = "batch" /\ batch.pc # "called") =>
        /\ sem_value + Cardinality(Active \cup Woken) = max_concurrent
        /\ sem_value >= 0
        /\ Returned => (sem_value = max_concurrent /\ sem_waiters = <<>>)

C35_Witness ==
    /\ caller = "batch"
    /\ Returned
    /\ N = MaxPhotos
    /\ max_concurrent = MaxConcurrent
    /\ sem_value = max_concurrent
    /\ FailedItems = Items
    /\ \E i, j \in Items : task[i].outcome.error = DecodeError
                           /\ task[j].outcome.error = AttributeError

\* task i has been given a slot, has gone through process_single_photo and
\* has given the slot back
Served(i) ==
    /\ task[i].pc = "done"
    /\ \A k \in 1..Len(sem_waiters) : sem_waiters[k] # i

\* C29: for every finite batch and every max_concurrent >= 1, when the
\* download and the analysis of every item complete or fail,
\* process_batch_photos returns: from some point on it has returned, every
\* item, queued or not, has been admitted to a slot and served, and no task
\* is blocked on the semaphore.
C29_BatchReturns ==
    <>[](/\ Returned
         /\ \A i \in Items : Served(i)
         /\ Queued = {} /\ Woken = {} /\ sem_waiters = <<>>)

C29_Witness ==
    /\ Returned
    /\ N = MaxPhotos
    /\ max_concurrent = 1
    /\ completed = [i \in 1..N |-> i]
    /\ sem_value = max_concurrent

-----------------------------------------------------------------------------
(* Properties of the result sink *)

\* the update of the k-th result was accepted with status 200
Accepted(snk, k) == snk.updates[k] = Return(TRUE)

\* C30: the result sink is fire-and-forget. A failure of update_ai_results
\* or update_batch_results (an exception inside, or a reply other than 200)
\* stays inside the client: the call never raises to the background task
\* that made it, it returns False when an update failed, and no step of it
\* changes an analysis result already returned, the outcome of a batch or
\* the metrics.
C30_SinkAbsorbsFailure ==
    [][/\ sink'.pc # "raised"
       /\ sink' # sink => UNCHANGED <<task, completed, batch, metrics, snapshot>>
       /\ sink'.pc = "running" =>
             \A k \in 1..Len(sink'.args) : sink'.updates[k].kind # "exception"
       /\ sink'.pc = "returned" =>
             sink'.outcome =
                 Return(\A k \in 1..Len(sink'.args) : Accepted(sink', k))
      ]_vars

C30_Witness ==
    /\ sink.pc = "returned"
    /\ sink.call = "update_batch_results"
    /\ sink.outcome = Return(FALSE)
    /\ Len(sink.args) = 2
    /\ ~HasAttr(sink.args[1], "prediction")
    /\ HasAttr(sink.args[2], "prediction")
    /\ ~Accepted(sink, 1)
    /\ ~Accepted(sink, 2)
    /\ batch.pc = "http_error"
    /\ metrics.total_analyses = 3

-----------------------------------------------------------------------------
(* Properties of the startup and of the health report *)

ModelsStatus == check_models_status(service)

AllThreeLoaded(st) ==
    st.haarcascade_loaded /\ st.dlib_loaded /\ st.mobilenet_loaded

\* C31 (as stated): health_check never raises, and it reports "healthy",
\* with the status of each service, exactly when the database, Redis and
\* WakeSafe API checks succeed and all three models are loaded, and
\* "unhealthy" when one of them is not ready.
C31_HealthReport ==
    health.pc = "responded" =>
        LET ready == /\ health.wakesafe_api
                     /\ AllThreeLoaded(health.models)
                     /\ health.models.all_models_loaded
        IN  /\ health.response.ok
            /\ health.response.status = IF ready THEN "healthy" ELSE "unhealthy"
            /\ ready => DOMAIN health.response.services
                            = {"database", "redis", "models", "wakesafe_api"}

\* C36: check_models_status reports all_models_loaded only in states where
\* haarcascade_loaded, dlib_loaded and mobilenet_loaded are all true; after
\* __init__ all four are false; and when a loader has failed
\* initialize_models raises and all_models_loaded stays false.
C36_AllModelsLoaded ==
    /\ ModelsStatus.all_models_loaded => AllThreeLoaded(ModelsStatus)
    /\ service.pc = "constructed" =>
          /\ ~ModelsStatus.all_models_loaded
          /\ ~ModelsStatus.haarcascade_loaded
          /\ ~ModelsStatus.dlib_loaded
          /\ ~ModelsStatus.mobilenet_loaded
    /\ service.failed => /\ ~ModelsStatus.all_models_loaded
                         /\ service.pc # "serving"
    /\ service.pc = "startup_failed" => service.failed
    /\ service.pc = "serving" => ModelsStatus.all_models_loaded

C36_Witness ==
    /\ service.pc = "startup_failed"
    /\ service.files.allocate = "raises"
    /\ AllThreeLoaded(ModelsStatus)
    /\ ~ModelsStatus.all_models_loaded

-----------------------------------------------------------------------------
(* Properties of the shared classifier interpreter *)

\* C37: the analyses that share the interpreter never interleave inside the
\* set-input, invoke, read-output sequence of one call: while a call is in
\* its sequence the tensors are its own and no other call is in its
\* sequence, and every call that read an output read the output computed
\* from its own image and returns the verdict of its own image.
C37_OwnOutput ==
    \A i \in Calls :
        LET c == interp.calls[i]
        IN  /\ c.pc = "set" => interp.input.call = i
            /\ c.pc = "invoked" => interp.output.call = i
            /\ c.pc \in {"set", "invoked"} =>
                  \A j \in Calls \ {i} : interp.calls[j].pc \in {"scheduled", "done"}
            /\ c.pc = "done" =>
                  /\ c.verdict = mobilenet_analysis(c.image)
                  /\ ~c.image.fault => c.read = [call |-> i, output |-> c.image.output]

C37_Witness ==
    /\ Len(interp.calls) = 3
    /\ \A i \in Calls : interp.calls[i].pc = "done"
    /\ interp.calls[1].verdict.prediction = "alert"
    /\ interp.calls[2].verdict.prediction = "unknown"
    /\ interp.calls[3].verdict.prediction = "sleeping"
    /\ interp.output.call = 1
    /\ interp.input.call = 2

-----------------------------------------------------------------------------
(* Properties of the authentication *)

\* C38 (as stated): verify_ai_token admits a request if and only if its
\* Authorization header is exactly "Bearer " followed by the configured
\* key; a missing header and every other value are rejected with status
\* 401, and then the body of the protected handler does not run and records
\* nothing.
C38_ExactBearer ==
    auth.pc \in {"admitted", "rejected", "handled"} =>
        LET exact == /\ auth.authorization.present
                     /\ auth.authorization.value = <<Bearer>> \o auth.secret_key
        IN  /\ auth.result.admitted <=> exact
            /\ ~auth.result.admitted =>
                  /\ auth.result.status_code = 401
                  /\ auth.pc = "rejected"
                  /\ metrics = ZeroMetrics

-----------------------------------------------------------------------------
(* Properties of the fusion step *)

Adapters == <<haarcascade, dlib, mobilenet>>

\* The weight the specification gives each adapter, in tenths.
SpecWeight == <<3, 5, 2>>

\* Sum of confidence x weight over the adapters voting for label b.
BucketScore(b) ==
    LET part(k) == IF Adapters[k].prediction = b
                   THEN Adapters[k].confidence * SpecWeight[k] ELSE 0
    IN  part(1) + part(2) + part(3)

TopScore == CHOOSE s \in {BucketScore(b) : b \in Labels} :
                \A b \in Labels : BucketScore(b) <= s

TopBuckets == {b \in Labels : BucketScore(b) = TopScore}

SomeVote == \E k \in 1..3 : Adapters[k].prediction # "unknown"

Fused == fused # NoResult

\* C8: with at least one non-unknown verdict the fusion returns a bucket whose
\* accumulated confidence x weight (weights 0.3, 0.5, 0.2) is the highest, with
\* that score; alert/0.7, drowsy/0.8, alert/0.9 fuse to drowsy with 0.40.
C8_WeightedVote ==
    (Fused /\ SomeVote) =>
        /\ fused.prediction \in Labels
        /\ \A b \in Labels : BucketScore(b) <= BucketScore(fused.prediction)
        /\ fused.confidence = BucketScore(fused.prediction)
        /\ (/\ haarcascade = Verdict("alert", 7)
            /\ dlib = Verdict("drowsy", 8)
            /\ mobilenet = Verdict("alert", 9))
           => (/\ BucketScore("alert") = 39
               /\ fused = [prediction |-> "drowsy", confidence |-> 40])

C8_Witness ==
    /\ Fused
    /\ haarcascade = Verdict("alert", 7)
    /\ dlib = Verdict("drowsy", 8)
    /\ mobilenet = Verdict("alert", 9)
    /\ fused.prediction = "drowsy"

Tie == Fused /\ SomeVote /\ Cardinality(TopBuckets) >= 2

AllUnknown == \A k \in 1..3 : Adapters[k].prediction = "unknown"

Zeroed(v) == IF v.prediction = "unknown" THEN Verdict("unknown", 0) ELSE v

\* C10: three unknown verdicts fuse to unknown with confidence 0.0, and the
\* confidence an unknown verdict carries changes nothing in the result: the
\* fused confidence is the winning bucket's sum over the non-unknown adapters
\* and the result is the one obtained with that confidence set to 0.
C10_Abstention ==
    Fused =>
        /\ AllUnknown => fused = [prediction |-> "unknown", confidence |-> 0]
        /\ (~AllUnknown) => fused.confidence = BucketScore(fused.prediction)
        /\ fused = combine_predictions(Zeroed(haarcascade), Zeroed(dlib),
                                       Zeroed(mobilenet))

C10_Witness ==
    /\ Fused
    /\ AllUnknown
    /\ \E k \in 1..3 : Adapters[k].confidence > 0
    /\ fused = [prediction |-> "unknown", confidence |-> 0]


\* the three input confidences lie in [0, 1]
UnitConfidences == \A k \in 1..3 : Adapters[k].confidence \in 0..10

\* the sum of the three weights, in hundredths
FullScale == 10 * (SpecWeight[1] + SpecWeight[2] + SpecWeight[3])

=============================================================================
